---- MODULE Spec2Model ----
(***************************************************************************)
(* A model of twapi-oauth2: the retry executor (execute_retry), the PKCE   *)
(* generator, the OAuth2 authorize URL and the OAuth1 request-token flow.  *)
(* Each operation is a step function on a record; the actions apply them.  *)
(***************************************************************************)
EXTENDS Integers, Sequences, FiniteSets, TLC

VARIABLES
    call,     \* one invocation of execute_retry (src/src/lib.rs:141-173)
    pkce,     \* one invocation of PkceS256::new (src/src/lib.rs:60-74)
    xc,       \* an XClient and its call of authorize_url (src/src/x.rs:151-168)
    oa,       \* an OAuth1aClient and its call of request_token or access_token
              \* (src/src/oauth1a.rs:91-177)
    oa2,      \* the same call on a client with another consumer secret
    call2,    \* a second invocation of execute_retry, in flight beside the first
    caller,   \* what the caller of an OAuth1aClient holds between its calls
    parsed,   \* one invocation of parse_oauth_body (src/src/oauth1a.rs:180-190)
    norm      \* one invocation of normalize

vars == <<call, pkce, xc, oa, oa2, call2, caller, parsed, norm>>

----------------------------------------------------------------------------
(* Bounds of the model. *)

\* largest try_count a call is made with
MaxTry == 3
\* largest retry_millis a call is made with
MaxMillis == 2
\* largest value drawn for rand::random::<u64>()
MaxRand == 3
\* the random byte samples of PkceS256::new: strides 0..MaxStride, offsets 0..MaxOffset
MaxStride == 6
MaxOffset == 15
\* the random byte samples of XClient::authorize_url
MaxXStride == 1
MaxXOffset == 1
\* largest try_count an OAuth1aClient is made with
MaxOaTry == 2
\* largest number of items of a response body
MaxItems == 4

----------------------------------------------------------------------------
(* Text. A string is the sequence of its characters, each a one-character  *)
(* string; bytes are numbers in 0..255.                                     *)

\* the printable ASCII characters, from code 32 (space) to code 126 (~); code 96,
\* the grave accent, cannot be written in a string and stands as "GRAVE"
AsciiPrintable ==
    <<" ", "!", "\"", "#", "$", "%", "&", "'", "(", ")", "*", "+", ",",
       "-", ".", "/", "0", "1", "2", "3", "4", "5", "6", "7", "8", "9",
       ":", ";", "<", "=", ">", "?", "@", "A", "B", "C", "D", "E", "F",
       "G", "H", "I", "J", "K", "L", "M", "N", "O", "P", "Q", "R", "S",
       "T", "U", "V", "W", "X", "Y", "Z", "[", "\\", "]", "^", "_", "GRAVE",
       "a", "b", "c", "d", "e", "f", "g", "h", "i", "j", "k", "l", "m",
       "n", "o", "p", "q", "r", "s", "t", "u", "v", "w", "x", "y", "z",
       "{", "|", "}", "~">>

\* the ASCII code of a printable character
Ord(c) == 31 + (CHOOSE k \in 1..Len(AsciiPrintable) : AsciiPrintable[k] = c)

\* the printable character of an ASCII code
Chr(n) == AsciiPrintable[n - 31]

\* str::as_bytes of an ASCII string
as_bytes(s) == [k \in 1..Len(s) |-> Ord(s[k])]

\* whether text occurs in s as a contiguous substring
Contains(s, text) ==
    \E k \in 1..(Len(s) - Len(text) + 1) : SubSeq(s, k, k + Len(text) - 1) = text

\* whether s ends with text
EndsWith(s, text) ==
    /\ Len(text) <= Len(s)
    /\ SubSeq(s, Len(s) - Len(text) + 1, Len(s)) = text

\* the positions of the character sep in s, and position Len(s) + 1
Cuts(s, sep) == {k \in 1..Len(s) : s[k] = sep} \cup {Len(s) + 1}

\* str::split(sep): the pieces of s between the occurrences of sep, in order
\* (one empty piece for the empty string)
Split(s, sep) ==
    LET IsCut(k) == k = Len(s) + 1 \/ s[k] = sep
        cuts == SelectSeq([k \in 1..(Len(s) + 1) |-> k], IsCut)
    IN  [n \in 1..Len(cuts) |->
            SubSeq(s, IF n = 1 THEN 1 ELSE cuts[n - 1] + 1, cuts[n] - 1)]

RECURSIVE Concat(_)
\* the concatenation of a sequence of strings (by halves)
Concat(parts) ==
    IF Len(parts) = 0 THEN <<>>
    ELSE IF Len(parts) = 1 THEN parts[1]
    ELSE LET mid == Len(parts) \div 2
         IN  Concat(SubSeq(parts, 1, mid)) \o Concat(SubSeq(parts, mid + 1, Len(parts)))

RECURSIVE Join(_, _)
\* [String]::join(sep)
Join(parts, sep) ==
    IF Len(parts) = 0 THEN <<>>
    ELSE IF Len(parts) = 1 THEN parts[1]
    ELSE parts[1] \o sep \o Join(Tail(parts), sep)

----------------------------------------------------------------------------
(* base64: BASE64_URL_SAFE_NO_PAD.encode (RFC 4648, section 5, no padding) *)

\* the URL-safe alphabet: the character of the 6-bit value v is Base64UrlChars[v + 1]
Base64UrlChars ==
    <<"A", "B", "C", "D", "E", "F", "G", "H", "I", "J", "K", "L", "M", "N",
       "O", "P", "Q", "R", "S", "T", "U", "V", "W", "X", "Y", "Z", "a",
       "b", "c", "d", "e", "f", "g", "h", "i", "j", "k", "l", "m", "n",
       "o", "p", "q", "r", "s", "t", "u", "v", "w", "x", "y", "z", "0",
       "1", "2", "3", "4", "5", "6", "7", "8", "9", "-", "_">>

\* the j-th 6-bit value of the encoding of bytes (a missing byte counts as 0)
Sextet(bytes, j) ==
    LET g == (j - 1) \div 4
        byte(k) == IF k <= Len(bytes) THEN bytes[k] ELSE 0
        b1 == byte(3 * g + 1)
        b2 == byte(3 * g + 2)
        b3 == byte(3 * g + 3)
    IN  CASE (j - 1) % 4 = 0 -> b1 \div 4
          [] (j - 1) % 4 = 1 -> (b1 % 4) * 16 + (b2 \div 16)
          [] (j - 1) % 4 = 2 -> (b2 % 16) * 4 + (b3 \div 64)
          [] OTHER           -> b3 % 64

\* BASE64_URL_SAFE_NO_PAD.encode(bytes): ceil(4n/3) characters, no '='
base64_url_safe_no_pad(bytes) ==
    [j \in 1..((4 * Len(bytes) + 2) \div 3) |-> Base64UrlChars[Sextet(bytes, j) + 1]]

----------------------------------------------------------------------------
(* SHA-256 (FIPS 180-4), as sha2::Sha256::digest computes it.               *)

\* A 32-bit word is the pair <<high 16 bits, low 16 bits>>.
\* exclusive or of two 4-bit numbers: XorNibble[a + 1][b + 1] = a xor b
XorNibble ==
    << << 0,  1,  2,  3,  4,  5,  6,  7,  8,  9, 10, 11, 12, 13, 14, 15>>,
       << 1,  0,  3,  2,  5,  4,  7,  6,  9,  8, 11, 10, 13, 12, 15, 14>>,
       << 2,  3,  0,  1,  6,  7,  4,  5, 10, 11,  8,  9, 14, 15, 12, 13>>,
       << 3,  2,  1,  0,  7,  6,  5,  4, 11, 10,  9,  8, 15, 14, 13, 12>>,
       << 4,  5,  6,  7,  0,  1,  2,  3, 12, 13, 14, 15,  8,  9, 10, 11>>,
       << 5,  4,  7,  6,  1,  0,  3,  2, 13, 12, 15, 14,  9,  8, 11, 10>>,
       << 6,  7,  4,  5,  2,  3,  0,  1, 14, 15, 12, 13, 10, 11,  8,  9>>,
       << 7,  6,  5,  4,  3,  2,  1,  0, 15, 14, 13, 12, 11, 10,  9,  8>>,
       << 8,  9, 10, 11, 12, 13, 14, 15,  0,  1,  2,  3,  4,  5,  6,  7>>,
       << 9,  8, 11, 10, 13, 12, 15, 14,  1,  0,  3,  2,  5,  4,  7,  6>>,
       <<10, 11,  8,  9, 14, 15, 12, 13,  2,  3,  0,  1,  6,  7,  4,  5>>,
       <<11, 10,  9,  8, 15, 14, 13, 12,  3,  2,  1,  0,  7,  6,  5,  4>>,
       <<12, 13, 14, 15,  8,  9, 10, 11,  4,  5,  6,  7,  0,  1,  2,  3>>,
       <<13, 12, 15, 14,  9,  8, 11, 10,  5,  4,  7,  6,  1,  0,  3,  2>>,
       <<14, 15, 12, 13, 10, 11,  8,  9,  6,  7,  4,  5,  2,  3,  0,  1>>,
       <<15, 14, 13, 12, 11, 10,  9,  8,  7,  6,  5,  4,  3,  2,  1,  0>> >>

\* and of two 4-bit numbers: AndNibble[a + 1][b + 1] = a and b
AndNibble ==
    << << 0,  0,  0,  0,  0,  0,  0,  0,  0,  0,  0,  0,  0,  0,  0,  0>>,
       << 0,  1,  0,  1,  0,  1,  0,  1,  0,  1,  0,  1,  0,  1,  0,  1>>,
       << 0,  0,  2,  2,  0,  0,  2,  2,  0,  0,  2,  2,  0,  0,  2,  2>>,
       << 0,  1,  2,  3,  0,  1,  2,  3,  0,  1,  2,  3,  0,  1,  2,  3>>,
       << 0,  0,  0,  0,  4,  4,  4,  4,  0,  0,  0,  0,  4,  4,  4,  4>>,
       << 0,  1,  0,  1,  4,  5,  4,  5,  0,  1,  0,  1,  4,  5,  4,  5>>,
       << 0,  0,  2,  2,  4,  4,  6,  6,  0,  0,  2,  2,  4,  4,  6,  6>>,
       << 0,  1,  2,  3,  4,  5,  6,  7,  0,  1,  2,  3,  4,  5,  6,  7>>,
       << 0,  0,  0,  0,  0,  0,  0,  0,  8,  8,  8,  8,  8,  8,  8,  8>>,
       << 0,  1,  0,  1,  0,  1,  0,  1,  8,  9,  8,  9,  8,  9,  8,  9>>,
       << 0,  0,  2,  2,  0,  0,  2,  2,  8,  8, 10, 10,  8,  8, 10, 10>>,
       << 0,  1,  2,  3,  0,  1,  2,  3,  8,  9, 10, 11,  8,  9, 10, 11>>,
       << 0,  0,  0,  0,  4,  4,  4,  4,  8,  8,  8,  8, 12, 12, 12, 12>>,
       << 0,  1,  0,  1,  4,  5,  4,  5,  8,  9,  8,  9, 12, 13, 12, 13>>,
       << 0,  0,  2,  2,  4,  4,  6,  6,  8,  8, 10, 10, 12, 12, 14, 14>>,
       << 0,  1,  2,  3,  4,  5,  6,  7,  8,  9, 10, 11, 12, 13, 14, 15>> >>

\* a 16-bit operation made of a 4-bit one, nibble by nibble
Nibbles16(op, a, b) ==
      op[(a \div 4096) + 1][(b \div 4096) + 1] * 4096
    + op[((a \div 256) % 16) + 1][((b \div 256) % 16) + 1] * 256
    + op[((a \div 16) % 16) + 1][((b \div 16) % 16) + 1] * 16
    + op[(a % 16) + 1][(b % 16) + 1]

Xor32(x, y) == <<Nibbles16(XorNibble, x[1], y[1]), Nibbles16(XorNibble, x[2], y[2])>>

And32(x, y) == <<Nibbles16(AndNibble, x[1], y[1]), Nibbles16(AndNibble, x[2], y[2])>>

Not32(x) == <<65535 - x[1], 65535 - x[2]>>

\* wrapping addition of two words
Add32(x, y) ==
    LET lo == x[2] + y[2]
        hi == x[1] + y[1] + (lo \div 65536)
    IN  <<hi % 65536, lo % 65536>>

\* rotate right by n, 0 <= n < 32
RotR32(x, n) ==
    LET y == IF n >= 16 THEN <<x[2], x[1]>> ELSE x
        m == n % 16
    IN  IF m = 0 THEN y
        ELSE << (y[1] \div (2 ^ m)) + (y[2] % (2 ^ m)) * (2 ^ (16 - m)),
                (y[2] \div (2 ^ m)) + (y[1] % (2 ^ m)) * (2 ^ (16 - m)) >>

\* shift right by n, 0 < n < 16
ShR32(x, n) ==
    << x[1] \div (2 ^ n),
       (x[2] \div (2 ^ n)) + (x[1] % (2 ^ n)) * (2 ^ (16 - n)) >>

\* the SHA-256 round constants (FIPS 180-4, 4.2.2)
Sha256K ==
    << <<17034, 12184>>, <<28983, 17553>>, <<46528, 64463>>, <<59829, 56229>>,
       <<14678, 49755>>, <<23025, 4593>>, <<37439, 33444>>, <<43804, 24277>>,
       <<55303, 43672>>, <<4739, 23297>>, <<9265, 34238>>, <<21772, 32195>>,
       <<29374, 23924>>, <<32990, 45566>>, <<39900, 1703>>, <<49563, 61812>>,
       <<58523, 27073>>, <<61374, 18310>>, <<4033, 40390>>, <<9228, 41420>>,
       <<11753, 11375>>, <<19060, 33962>>, <<23728, 43484>>, <<30457, 35034>>,
       <<38974, 20818>>, <<43057, 50797>>, <<45059, 10184>>, <<48985, 32711>>,
       <<50912, 3059>>, <<54695, 37191>>, <<1738, 25425>>, <<5161, 10599>>,
       <<10167, 2693>>, <<11803, 8504>>, <<19756, 28156>>, <<21304, 3347>>,
       <<25866, 29524>>, <<30314, 2747>>, <<33218, 51502>>, <<37490, 11397>>,
       <<41663, 59553>>, <<43034, 26187>>, <<49739, 35696>>, <<51052, 20899>>,
       <<53650, 59417>>, <<54937, 1572>>, <<62478, 13701>>, <<4202, 41072>>,
       <<6564, 49430>>, <<7735, 27656>>, <<10056, 30540>>, <<13488, 48309>>,
       <<14620, 3251>>, <<20184, 43594>>, <<23452, 51791>>, <<26670, 28659>>,
       <<29839, 33518>>, <<30885, 25455>>, <<33992, 30740>>, <<36039, 520>>,
       <<37054, 65530>>, <<42064, 27883>>, <<48889, 41975>>, <<50801, 30962>> >>

\* the SHA-256 initial hash value (FIPS 180-4, 5.3.3)
Sha256H0 ==
    << <<27145, 58983>>, <<47975, 44677>>, <<15470, 62322>>, <<42319, 62778>>,
       <<20750, 21119>>, <<39685, 26764>>, <<8067, 55723>>, <<23520, 52505>> >>

Ch(x, y, z) == Xor32(And32(x, y), And32(Not32(x), z))

Maj(x, y, z) == Xor32(Xor32(And32(x, y), And32(x, z)), And32(y, z))

BigSigma0(x) == Xor32(Xor32(RotR32(x, 2), RotR32(x, 13)), RotR32(x, 22))

BigSigma1(x) == Xor32(Xor32(RotR32(x, 6), RotR32(x, 11)), RotR32(x, 25))

SmallSigma0(x) == Xor32(Xor32(RotR32(x, 7), RotR32(x, 18)), ShR32(x, 3))

SmallSigma1(x) == Xor32(Xor32(RotR32(x, 17), RotR32(x, 19)), ShR32(x, 10))

\* the message with its padding: 0x80, zeros, and the bit length in 64 bits
Sha256Pad(bytes) ==
    LET len == Len(bytes)
        total == (((len + 8) \div 64) + 1) * 64
        bits == len * 8
    IN  [k \in 1..total |->
            IF k <= len THEN bytes[k]
            ELSE IF k = len + 1 THEN 128
            ELSE IF k <= total - 4 THEN 0
            ELSE (bits \div (2 ^ (8 * (total - k)))) % 256]

RECURSIVE Sha256Schedule(_)
\* the message schedule W, extended from 16 to 64 words
Sha256Schedule(w) ==
    IF Len(w) = 64 THEN w
    ELSE LET t == Len(w) + 1
             next == Add32(Add32(SmallSigma1(w[t - 2]), w[t - 7]),
                           Add32(SmallSigma0(w[t - 15]), w[t - 16]))
         IN  Sha256Schedule(Append(w, next))

\* round t on the working variables v = <<a, b, c, d, e, f, g, h>>
Sha256Round(v, w, t) ==
    LET t1 == Add32(Add32(Add32(v[8], BigSigma1(v[5])),
                          Add32(Ch(v[5], v[6], v[7]), Sha256K[t])), w[t])
        t2 == Add32(BigSigma0(v[1]), Maj(v[1], v[2], v[3]))
    IN  <<Add32(t1, t2), v[1], v[2], v[3], Add32(v[4], t1), v[5], v[6], v[7]>>

RECURSIVE Sha256Rounds(_, _, _, _)
\* rounds from..to in order; the first half is computed before the second is
\* entered, which keeps the evaluation shallow
Sha256Rounds(v, w, from, to) ==
    IF from = to THEN Sha256Round(v, w, from)
    ELSE LET mid == (from + to) \div 2
             half == Sha256Rounds(v, w, from, mid)
         IN  IF Len(half) = 8 THEN Sha256Rounds(half, w, mid + 1, to) ELSE half

\* one 64-byte block folded into the hash value h
Sha256Block(h, block) ==
    LET w16 == [t \in 1..16 |->
                   << block[4 * t - 3] * 256 + block[4 * t - 2],
                      block[4 * t - 1] * 256 + block[4 * t] >>]
        v == Sha256Rounds(h, Sha256Schedule(w16), 1, 64)
    IN  [k \in 1..8 |-> Add32(h[k], v[k])]

RECURSIVE Sha256Blocks(_, _)
Sha256Blocks(h, padded) ==
    IF Len(padded) = 0 THEN h
    ELSE Sha256Blocks(Sha256Block(h, SubSeq(padded, 1, 64)),
                      SubSeq(padded, 65, Len(padded)))

\* sha2::Sha256::digest: the 32 bytes of the hash of a byte sequence
Sha256(bytes) ==
    LET h == Sha256Blocks(Sha256H0, Sha256Pad(bytes))
    IN  [k \in 1..32 |->
            LET half == h[((k - 1) \div 4) + 1][(((k - 1) % 4) \div 2) + 1]
            IN  IF k % 2 = 1 THEN half \div 256 ELSE half % 256]

----------------------------------------------------------------------------
(* PkceS256::new, src/src/lib.rs:60-74.                                     *)

\* let size = 32;
PkceSize == 32

\* the bytes drawn from rand::random::<u8>(): one sample per (stride, offset)
RandomBytes(stride, offset) ==
    [k \in 1..PkceSize |-> (255 + offset + 29 * stride * (k - 1)) % 256]

\* one more sample: the octets of the worked example of RFC 7636, appendix B
Rfc7636Bytes ==
    <<116, 24, 223, 180, 151, 153, 224, 37, 79, 250, 96, 125, 216, 173, 187,
      186, 22, 212, 37, 77, 105, 214, 191, 240, 91, 88, 5, 88, 83, 132, 141,
      121>>

\* the samples of 32 random bytes a call of PkceS256::new can draw
RandomSamples(strides, offsets) ==
    {RandomBytes(stride, offset) : stride \in 0..strides, offset \in 0..offsets}
        \cup {Rfc7636Bytes}
\* seeded fault: the challenge is the hash of the random bytes, not of the verifier
PkceS256_new_HashesRandomBytes(random_bytes) ==
    [code_challenge |-> base64_url_safe_no_pad(Sha256(random_bytes)),
     code_verifier |-> base64_url_safe_no_pad(random_bytes)]

\* PkceS256 { code_challenge, code_verifier } made from the drawn bytes
PkceS256_new(random_bytes) ==
    LET code_verifier == base64_url_safe_no_pad(random_bytes)
        hash == Sha256(as_bytes(code_verifier))
    IN  [code_challenge |-> base64_url_safe_no_pad(hash),
         code_verifier |-> code_verifier]

----------------------------------------------------------------------------
(* The authorize URL of OAuth2: authorize_url, src/src/lib.rs:83-102, and   *)
(* XClient::authorize_url, src/src/x.rs:151-168.                            *)

\* the digits of a percent escape (upper case)
HexDigits ==
    <<"0", "1", "2", "3", "4", "5", "6", "7", "8", "9", "A", "B", "C", "D",
        "E", "F">>

\* the printable ASCII characters that QueryString escapes in keys and values
QueryEncodeSet == {" ", "\"", "#", "<", ">", "%", "&", "=", "+"}

\* the escape of one character: % and the two hex digits of its code
PercentEscape(c) ==
    <<"%", HexDigits[(Ord(c) \div 16) + 1], HexDigits[(Ord(c) % 16) + 1]>>

\* how QueryString writes a key or a value of printable ASCII text
QueryEncode(s) ==
    Concat([k \in 1..Len(s) |->
               IF s[k] \in QueryEncodeSet THEN PercentEscape(s[k]) ELSE <<s[k]>>])

\* Display of a QueryString with the pairs given by with_value, in order:
\* nothing when there is no pair, else ? and the key=value items joined by &
QueryString(pairs) ==
    IF Len(pairs) = 0 THEN <<>>
    ELSE <<"?">> \o Join([k \in 1..Len(pairs) |->
                             QueryEncode(pairs[k][1]) \o <<"=">> \o QueryEncode(pairs[k][2])],
                         <<"&">>)

\* ResponseType::to_string
ResponseType_to_string(response_type) ==
    CASE response_type = "Code"  -> <<"c", "o", "d", "e">>
      [] response_type = "Token" -> <<"t", "o", "k", "e", "n">>

\* CodeChallengeMethod::to_string
CodeChallengeMethod_to_string(method) ==
    CASE method = "S256"  -> <<"S", "2", "5", "6">>
      [] method = "Plain" -> <<"p", "l", "a", "i", "n">>

\* seeded fault: the challenge is written after its method
authorize_url_ChallengeLast(url, response_type, client_id, redirect_uri, scopes, state, code_challenge, code_challenge_method) ==
    url \o QueryString(<<
        <<<<"r", "e", "s", "p", "o", "n", "s", "e", "_", "t", "y", "p",
            "e">>, ResponseType_to_string(response_type)>>,
        <<<<"c", "l", "i", "e", "n", "t", "_", "i", "d">>, client_id>>,
        <<<<"r", "e", "d", "i", "r", "e", "c", "t", "_", "u", "r",
            "i">>, redirect_uri>>,
        <<<<"s", "c", "o", "p", "e">>, scopes>>,
        <<<<"s", "t", "a", "t", "e">>, state>>,
        <<<<"c", "o", "d", "e", "_", "c", "h", "a", "l", "l", "e", "n", "g",
            "e", "_", "m", "e", "t", "h", "o",
            "d">>, CodeChallengeMethod_to_string(code_challenge_method)>>,
        <<<<"c", "o", "d", "e", "_", "c", "h", "a", "l", "l", "e", "n", "g",
            "e">>, code_challenge>> >>)

\* authorize_url(url, response_type, client_id, redirect_uri, scopes, state,
\*               code_challenge, code_challenge_method)
authorize_url(url, response_type, client_id, redirect_uri, scopes, state, code_challenge, code_challenge_method) ==
    url \o QueryString(<<
        <<<<"r", "e", "s", "p", "o", "n", "s", "e", "_", "t", "y", "p",
            "e">>, ResponseType_to_string(response_type)>>,
        <<<<"c", "l", "i", "e", "n", "t", "_", "i", "d">>, client_id>>,
        <<<<"r", "e", "d", "i", "r", "e", "c", "t", "_", "u", "r",
            "i">>, redirect_uri>>,
        <<<<"s", "c", "o", "p", "e">>, scopes>>,
        <<<<"s", "t", "a", "t", "e">>, state>>,
        <<<<"c", "o", "d", "e", "_", "c", "h", "a", "l", "l", "e", "n", "g",
            "e">>, code_challenge>>,
        <<<<"c", "o", "d", "e", "_", "c", "h", "a", "l", "l", "e", "n", "g",
            "e", "_", "m", "e", "t", "h", "o",
            "d">>, CodeChallengeMethod_to_string(code_challenge_method)>> >>)

\* XScope::all(): the variants of XScope, in the order of the enum
XScope_all ==
    <<"TweetRead", "TweetWrite", "TweetModerateWrite", "UsersEmail", "UsersRead",
      "FollowsRead", "FollowsWrite", "OfflineAccess", "SpaceRead", "MuteRead",
      "MuteWrite", "LikeRead", "LikeWrite", "ListRead", "ListWrite", "BlockRead",
      "BlockWrite", "BookmarkRead", "BookmarkWrite", "DmRead", "DmWrite",
      "MediaWrite">>

\* XScope::to_string (Display for XScope)
XScope_to_string(scope) ==
    CASE scope = "TweetRead"          -> <<"t", "w", "e", "e", "t", ".", "r",
        "e", "a", "d">>
      [] scope = "TweetWrite"         -> <<"t", "w", "e", "e", "t", ".", "w",
          "r", "i", "t", "e">>
      [] scope = "TweetModerateWrite" -> <<"t", "w", "e", "e", "t", ".", "m",
          "o", "d", "e", "r", "a", "t", "e", ".", "w", "r", "i", "t", "e">>
      [] scope = "UsersEmail"         -> <<"u", "s", "e", "r", "s", ".", "e",
          "m", "a", "i", "l">>
      [] scope = "UsersRead"          -> <<"u", "s", "e", "r", "s", ".", "r",
          "e", "a", "d">>
      [] scope = "FollowsRead"        -> <<"f", "o", "l", "l", "o", "w", "s",
          ".", "r", "e", "a", "d">>
      [] scope = "FollowsWrite"       -> <<"f", "o", "l", "l", "o", "w", "s",
          ".", "w", "r", "i", "t", "e">>
      [] scope = "OfflineAccess"      -> <<"o", "f", "f", "l", "i", "n", "e",
          ".", "a", "c", "c", "e", "s", "s">>
      [] scope = "SpaceRead"          -> <<"s", "p", "a", "c", "e", ".", "r",
          "e", "a", "d">>
      [] scope = "MuteRead"           -> <<"m", "u", "t", "e", ".", "r", "e",
          "a", "d">>
      [] scope = "MuteWrite"          -> <<"m", "u", "t", "e", ".", "w", "r",
          "i", "t", "e">>
      [] scope = "LikeRead"           -> <<"l", "i", "k", "e", ".", "r", "e",
          "a", "d">>
      [] scope = "LikeWrite"          -> <<"l", "i", "k", "e", ".", "w", "r",
          "i", "t", "e">>
      [] scope = "ListRead"           -> <<"l", "i", "s", "t", ".", "r", "e",
          "a", "d">>
      [] scope = "ListWrite"          -> <<"l", "i", "s", "t", ".", "w", "r",
          "i", "t", "e">>
      [] scope = "BlockRead"          -> <<"b", "l", "o", "c", "k", ".", "r",
          "e", "a", "d">>
      [] scope = "BlockWrite"         -> <<"b", "l", "o", "c", "k", ".", "w",
          "r", "i", "t", "e">>
      [] scope = "BookmarkRead"       -> <<"b", "o", "o", "k", "m", "a", "r",
          "k", ".", "r", "e", "a", "d">>
      [] scope = "BookmarkWrite"      -> <<"b", "o", "o", "k", "m", "a", "r",
          "k", ".", "w", "r", "i", "t", "e">>
      [] scope = "DmRead"             -> <<"d", "m", ".", "r", "e", "a", "d">>
      [] scope = "DmWrite"            -> <<"d", "m", ".", "w", "r", "i", "t",
          "e">>
      [] scope = "MediaWrite"         -> <<"m", "e", "d", "i", "a", ".", "w",
          "r", "i", "t", "e">>

\* XScope::scopes_to_string
scopes_to_string(scopes) ==
    Join([k \in 1..Len(scopes) |-> XScope_to_string(scopes[k])], <<" ">>)

\* pub const X_AUTHORIZE_URL
X_AUTHORIZE_URL ==
    <<"h", "t", "t", "p", "s", ":", "/", "/", "x", ".", "c", "o", "m", "/",
        "i", "/", "o", "a", "u", "t", "h", "2", "/", "a", "u", "t", "h", "o",
        "r", "i", "z", "e">>

\* XClient::new_with_token_options(client_id, client_secret, redirect_uri, scopes,
\* try_count, retry_millis, timeout)
XClient_new_with_token_options(client_id, client_secret, redirect_uri, scopes, try_count, retry_millis, timeout) ==
    [pc |-> "made", client_id |-> client_id, client_secret |-> client_secret,
     redirect_uri |-> redirect_uri, scopes |-> scopes, try_count |-> try_count,
     retry_millis |-> retry_millis, timeout |-> timeout]

\* XClient::new(client_id, client_secret, redirect_uri, scopes): 3 attempts,
\* 500 ms, Duration::from_secs(10)
XClient_new(client_id, client_secret, redirect_uri, scopes) ==
    XClient_new_with_token_options(client_id, client_secret, redirect_uri, scopes,
                                   3, 500, 10000)

\* XClient::authorize_url(&self, state), with the random bytes PkceS256::new draws:
\* the client with the state passed and the (url, code_verifier) returned
XClient_authorize_url(self, state, random_bytes) ==
    LET new_pkce == PkceS256_new(random_bytes)
        scopes_str == scopes_to_string(self.scopes)
    IN  [pc |-> "returned", client_id |-> self.client_id,
         client_secret |-> self.client_secret,
         redirect_uri |-> self.redirect_uri, scopes |-> self.scopes,
         try_count |-> self.try_count, retry_millis |-> self.retry_millis,
         timeout |-> self.timeout,
         state |-> state, random_bytes |-> random_bytes,
         url |-> authorize_url(X_AUTHORIZE_URL, "Code", self.client_id,
                               self.redirect_uri, scopes_str, state,
                               new_pkce.code_challenge, "S256"),
         code_verifier |-> new_pkce.code_verifier]

----------------------------------------------------------------------------
(* OAuth1, the parts src/src/oauth1a.rs calls that are not in the sources:   *)
(* the parameter codec, calc_oauth_header and make_url, written from the     *)
(* specification (sections 4.1, 4.2 and 6).                                  *)

\* an Option: None, or Some(value)
None == [some |-> FALSE]

Some(value) == [some |-> TRUE, value |-> value]

\* the characters percent_encode passes through: A-Z a-z 0-9 - . _ ~
Unreserved ==
    {Chr(n) : n \in (65..90) \cup (97..122) \cup (48..57)} \cup {"-", ".", "_", "~"}

\* percent_encode(s): every character outside Unreserved becomes %XY, upper case
percent_encode(s) ==
    Concat([k \in 1..Len(s) |->
               IF s[k] \in Unreserved THEN <<s[k]>> ELSE PercentEscape(s[k])])

\* a is before b in the order of texts (byte by byte, a prefix first)
TextLess(a, b) ==
    \E k \in 1..(Len(b)) :
        /\ k <= Len(a) + 1
        /\ SubSeq(a, 1, k - 1) = SubSeq(b, 1, k - 1)
        /\ k = Len(a) + 1 \/ Ord(a[k]) < Ord(b[k])

\* the order of encoded pairs: by key, then by value
PairLess(p, q) == TextLess(p[1], q[1]) \/ (p[1] = q[1] /\ TextLess(p[2], q[2]))

\* the pairs of a list in the order of PairLess (they are distinct)
SortPairs(pairs) ==
    LET place(n) == Cardinality({m \in 1..Len(pairs) : PairLess(pairs[m], pairs[n])}) + 1
    IN  [p \in 1..Len(pairs) |-> pairs[CHOOSE n \in 1..Len(pairs) : place(n) = p]]

\* seeded fault: a pair supplied again is kept again
normalize_KeepsRepeats(params) ==
    LET encoded == [k \in 1..Len(params) |->
                       <<percent_encode(params[k][1]), percent_encode(params[k][2])>>]
        place(n) == Cardinality({m \in 1..Len(encoded) :
                                    \/ PairLess(encoded[m], encoded[n])
                                    \/ encoded[m] = encoded[n] /\ m < n}) + 1
        sorted == [p \in 1..Len(encoded) |->
                      encoded[CHOOSE n \in 1..Len(encoded) : place(n) = p]]
    IN  Join([n \in 1..Len(sorted) |-> sorted[n][1] \o <<"=">> \o sorted[n][2]],
             <<"&">>)

\* normalize(params), on the pairs as they are supplied: a pair supplied again
\* is dropped, and the encoded key=value pairs of the others are sorted by
\* (encoded key, encoded value) and joined with &
normalize(params) ==
    LET IsFirst(k) == \A j \in 1..(k - 1) : params[j] # params[k]
        kept == SelectSeq([k \in 1..Len(params) |-> k], IsFirst)
        encoded == [n \in 1..Len(kept) |->
                       <<percent_encode(params[kept[n]][1]),
                         percent_encode(params[kept[n]][2])>>]
        sorted == SortPairs(encoded)
    IN  Join([n \in 1..Len(sorted) |-> sorted[n][1] \o <<"=">> \o sorted[n][2]],
             <<"&">>)
\* UPPER(method)
Upper(s) ==
    [k \in 1..Len(s) |->
        IF Ord(s[k]) >= 97 /\ Ord(s[k]) <= 122 THEN Chr(Ord(s[k]) - 32) ELSE s[k]]

\* the base64 text of the keyed hash of a text. The hash is not computed: it
\* stands as the term hmac(key,text), so that two signatures are equal exactly
\* when their keys and their texts are
KeyedHashBase64(key, text) ==
    <<"h", "m", "a", "c", "(">> \o key \o <<",">> \o text \o <<")">>

\* the fixed identifier of the signature algorithm
SignatureMethod ==
    <<"H", "M", "A", "C", "-", "S", "H", "A", "1">>

\* calc_oauth_header(sign_key, consumer_key, header_options, method, url,
\* options), with the nonce and the timestamp it draws: the value of the
\* Authorization header after "OAuth "
calc_oauth_header(sign_key, consumer_key, header_options, method, url, options, fresh) ==
    LET oauth_params ==
            << <<<<"o", "a", "u", "t", "h", "_", "c", "o", "n", "s", "u",
                "m", "e", "r", "_", "k", "e", "y">>, consumer_key>>,
               <<<<"o", "a", "u", "t", "h", "_", "n", "o", "n", "c",
                   "e">>, fresh.nonce>>,
               <<<<"o", "a", "u", "t", "h", "_", "s", "i", "g", "n", "a",
                   "t", "u", "r", "e", "_", "m", "e", "t", "h", "o",
                   "d">>, SignatureMethod>>,
               <<<<"o", "a", "u", "t", "h", "_", "t", "i", "m", "e", "s",
                   "t", "a", "m", "p">>, fresh.timestamp>>,
               <<<<"o", "a", "u", "t", "h", "_", "v", "e", "r", "s", "i",
                   "o", "n">>, <<"1", ".", "0">>>> >> \o header_options
        all_params == oauth_params \o options
        base == Upper(method) \o <<"&">> \o percent_encode(url) \o <<"&">>
                    \o percent_encode(normalize(all_params))
        pairs == Append(oauth_params,
                        <<<<"o", "a", "u", "t", "h", "_", "s", "i", "g", "n",
                            "a", "t", "u", "r",
                            "e">>, KeyedHashBase64(sign_key, base)>>)
    IN  Join([k \in 1..Len(pairs) |->
                 percent_encode(pairs[k][1]) \o <<"=", "\"">>
                     \o percent_encode(pairs[k][2]) \o <<"\"">>],
             <<",", " ">>)

\* make_url(base_url_prefix, postfix, prefix_url): the endpoint under the base
\* URL, or under the override when one is configured
make_url(base_url_prefix, postfix, prefix_url) ==
    IF prefix_url.some THEN prefix_url.value \o postfix ELSE base_url_prefix \o postfix
----------------------------------------------------------------------------
(* OAuth1: src/src/oauth1a.rs.                                               *)

BASE_URL_PREFIX ==
    <<"h", "t", "t", "p", "s", ":", "/", "/", "a", "p", "i", ".", "x", ".",
        "c", "o", "m">>

REQUEST_TOKEN_URL_POSTFIX ==
    <<"/", "o", "a", "u", "t", "h", "/", "r", "e", "q", "u", "e", "s", "t",
        "_", "t", "o", "k", "e", "n">>

ACCESS_TOKEN_URL_POSTFIX ==
    <<"/", "o", "a", "u", "t", "h", "/", "a", "c", "c", "e", "s", "s", "_",
        "t", "o", "k", "e", "n">>
AUTHORIZE_URL ==
    <<"h", "t", "t", "p", "s", ":", "/", "/", "a", "p", "i", ".", "x", ".",
        "c", "o", "m", "/", "o", "a", "u", "t", "h", "/", "a", "u", "t", "h",
        "o", "r", "i", "z", "e", "?", "o", "a", "u", "t", "h", "_", "t", "o",
        "k", "e", "n", "=">>

\* XAuthAccessType::as_str
XAuthAccessType_as_str(access_type) ==
    CASE access_type = "Read"  -> <<"r", "e", "a", "d">>
      [] access_type = "Write" -> <<"w", "r", "i", "t", "e">>

\* the items of a body and their pieces, as str::split gives them
BodyItems(body) == Split(body, "&")

\* pair.next(): the key of an item
ItemKey(item) == Split(item, "=")[1]

\* seeded fault: an item with no = gets its key as its value
ItemValue_KeyForBare(item) ==
    LET pair == Split(item, "=") IN IF Len(pair) >= 2 THEN pair[2] ELSE pair[1]
\* seeded fault: the value of an item is all that follows its first =
ItemValue_UpToItemEnd(item) ==
    LET pair == Split(item, "=")
    IN  IF Len(pair) >= 2 THEN Join(SubSeq(pair, 2, Len(pair)), <<"=">>) ELSE <<>>
\* pair.next().unwrap_or(""): the value of an item
ItemValue(item) ==
    LET pair == Split(item, "=") IN IF Len(pair) >= 2 THEN pair[2] ELSE <<>>

\* seeded fault: the first item of a key wins
parse_oauth_body_FirstWins(body) ==
    LET items == BodyItems(body)
        keys == {ItemKey(items[k]) : k \in 1..Len(items)}
        first(key) == CHOOSE k \in 1..Len(items) :
                          /\ ItemKey(items[k]) = key
                          /\ \A j \in 1..(k - 1) : ItemKey(items[j]) # key
    IN  [key \in keys \cup {<<"t", "w", "a", "p", "i", "_", "r", "e", "q",
        "u", "e", "s", "t", "_", "b", "o", "d", "y">>} |->
            IF key \in keys THEN ItemValue(items[first(key)]) ELSE body]

\* parse_oauth_body(body): the HashMap after the insert of twapi_request_body
\* and one insert per item, each insert replacing the value its key had
parse_oauth_body(body) ==
    LET items == BodyItems(body)
        keys == {ItemKey(items[k]) : k \in 1..Len(items)}
        last(key) == CHOOSE k \in 1..Len(items) :
                         /\ ItemKey(items[k]) = key
                         /\ \A j \in (k + 1)..Len(items) : ItemKey(items[j]) # key
    IN  [key \in keys \cup {<<"t", "w", "a", "p", "i", "_", "r", "e", "q",
        "u", "e", "s", "t", "_", "b", "o", "d", "y">>} |->
            IF key \in keys THEN ItemValue(items[last(key)]) ELSE body]

\* map.get(key)
map_get(map, key) == IF key \in DOMAIN map THEN Some(map[key]) ELSE None

\* seeded fault: new_with_options rejects an empty consumer key or secret
OAuth1aClient_new_with_options_Validated(consumer_key, consumer_secret, callback_url, try_count, retry_duration, timeout, prefix_url) ==
    IF consumer_key = <<>> \/ consumer_secret = <<>>
        THEN [error |-> "ConfigurationError"]
        ELSE [consumer_key |-> consumer_key, consumer_secret |-> consumer_secret,
              callback_url |-> callback_url, try_count |-> try_count,
              retry_duration |-> retry_duration, timeout |-> timeout,
              prefix_url |-> prefix_url]
\* OAuth1aClient::new_with_options(consumer_key, consumer_secret, callback_url,
\* try_count, retry_duration, timeout, prefix_url)
OAuth1aClient_new_with_options(consumer_key, consumer_secret, callback_url, try_count, retry_duration, timeout, prefix_url) ==
    [consumer_key |-> consumer_key, consumer_secret |-> consumer_secret,
     callback_url |-> callback_url, try_count |-> try_count,
     retry_duration |-> retry_duration, timeout |-> timeout,
     prefix_url |-> prefix_url]


\* OAuth1aClient::new(consumer_key, consumer_secret, callback_url)
OAuth1aClient_new(consumer_key, consumer_secret, callback_url) ==
    OAuth1aClient_new_with_options(consumer_key, consumer_secret, callback_url,
                                   3, 100, 10000, None)
----------------------------------------------------------------------------
(* The transport collaborator: what one send().await can produce. *)

\* status codes the mock endpoint answers with: the edges of every class
Statuses == {100, 199, 200, 299, 300, 399, 400, 404, 499, 500, 503, 599}

HeaderMaps == { <<>>, << <<"retry-after", "1">> >> }

\* body texts; "tok" is the only one that decodes into T
BodyTexts == {"", "tok", "oops"}

\* a response body: its text, and whether reading it off the wire succeeds
BodyOutcomes == [readable : BOOLEAN, text : BodyTexts]

Responses == [status : Statuses, headers : HeaderMaps, body : BodyOutcomes]

NoResponse == [status |-> 0, headers |-> <<>>, body |-> [readable |-> FALSE, text |-> ""]]

\* Result<Response, reqwest::Error> of req.send().await
SendOutcomes == {[ok |-> FALSE, response |-> NoResponse]}
                  \cup {[ok |-> TRUE, response |-> r] : r \in Responses}

\* StatusCode::is_success: 200..=299
is_success(status) == 200 <= status /\ status < 300

\* StatusCode::is_client_error: 400..=499
is_client_error(status) == 400 <= status /\ status < 500

\* serde's decoding of a body text into T: Ok(value) or Err
DecodesAsT(text) == text = "tok"

DecodedT(text) == "T(" \o text \o ")"

\* res.json::<T>().await: Err when the body cannot be read or does not decode
json(body) ==
    IF body.readable /\ DecodesAsT(body.text)
        THEN [ok |-> TRUE, value |-> DecodedT(body.text)]
        ELSE [ok |-> FALSE, value |-> ""]

\* res.text().await.unwrap_or_default(): "" when the body cannot be read
text_unwrap_or_default(body) == IF body.readable THEN body.text ELSE ""

----------------------------------------------------------------------------
(* Results of a call: Ok((T, StatusCode, HeaderMap)), the variants of       *)
(* OAuth2Error (src/src/error.rs), or a panic that unwinds the call.       *)

NoResult == [kind |-> "none", payload |-> "", status |-> 0, headers |-> <<>>]

Ok(value, status, headers) ==
    [kind |-> "Ok", payload |-> value, status |-> status, headers |-> headers]

ClientError(body, status, headers) ==
    [kind |-> "ClientError", payload |-> body, status |-> status, headers |-> headers]

RetryOver(body, status, headers) ==
    [kind |-> "RetryOver", payload |-> body, status |-> status, headers |-> headers]

\* OAuth2Error::Reqwest, made by `?` from a reqwest::Error
Reqwest(cause) ==
    [kind |-> "Reqwest", payload |-> cause, status |-> 0, headers |-> <<>>]

Panic(cause) ==
    [kind |-> "panic", payload |-> cause, status |-> 0, headers |-> <<>>]

----------------------------------------------------------------------------
(* execute_retry, src/src/lib.rs:141-173, as step functions on a call.     *)

\* seeded fault: the delay is not doubled per attempt
exp_backoff_Flat(i, retry_millis) == retry_millis

\* 2u64.pow(i as u32) * retry_millis (within the bounds the product is far
\* below 2^64, so the u64 arithmetic does not wrap)
exp_backoff(i, retry_millis) == (2 ^ i) * retry_millis

\* the state of a call on entry
CallInit(try_count, retry_millis) ==
    [pc |-> "loop", try_count |-> try_count, retry_millis |-> retry_millis,
     i |-> 0, builds |-> 0, sends |-> 0, sleeps |-> <<>>,
     res |-> NoResponse, last |-> "none", transients |-> 0,
     result |-> NoResult]

\* seeded fault: the two calls in flight draw their attempts from one budget
ForNext_SharedBudget(c) ==
    IF call.builds + call2.builds < c.try_count
        THEN [c EXCEPT !.pc = "send", !.builds = @ + 1]
        ELSE [c EXCEPT !.pc = "panic", !.result = Panic("unreachable")]
\* seeded fault: an empty loop returns an error value instead of falling through
ForNext_EmptyLoopReturns(c) ==
    IF c.i < c.try_count
        THEN [c EXCEPT !.pc = "send", !.builds = @ + 1]
        ELSE [c EXCEPT !.pc = "done", !.result = RetryOver("", 0, <<>>)]
\* for i in 0..try_count { let req = f(); ...   and unreachable!() after it
ForNext(c) ==
    IF c.i < c.try_count
        THEN [c EXCEPT !.pc = "send", !.builds = @ + 1]
        ELSE [c EXCEPT !.pc = "panic", !.result = Panic("unreachable")]

\* seeded fault: a zero retry_millis draws no jitter and sleeps for no time
OnTransient_ZeroJitter(c, rnd) ==
    LET t == [c EXCEPT !.transients = @ + 1] IN
    IF c.i + 1 < c.try_count
        THEN LET jitter == IF c.retry_millis = 0 THEN 0 ELSE rnd % c.retry_millis
                 retry_duration == exp_backoff(c.i, c.retry_millis) + jitter
             IN  [t EXCEPT !.pc = "sleep", !.sleeps = Append(@, retry_duration)]
        ELSE [t EXCEPT !.pc = "over_text"]
\* any other status: back off while attempts remain, else RetryOver
\* (rand::random::<u64>() % retry_millis panics when retry_millis is 0)
OnTransient(c, rnd) ==
    LET t == [c EXCEPT !.transients = @ + 1] IN
    IF c.i + 1 < c.try_count
        THEN IF c.retry_millis = 0
                 THEN [t EXCEPT !.pc = "panic", !.result = Panic("rem_by_zero")]
                 ELSE LET jitter == rnd % c.retry_millis
                          retry_duration == exp_backoff(c.i, c.retry_millis) + jitter
                      IN  [t EXCEPT !.pc = "sleep",
                                    !.sleeps = Append(@, retry_duration)]
        ELSE [t EXCEPT !.pc = "over_text"]

\* req.send().await? failed: the error is returned through `?`
OnSendError(c, rnd) ==
    [c EXCEPT !.pc = "done", !.last = "transport", !.result = Reqwest("send")]

\* status.is_success(): go on to res.json().await
OnSuccess(c, rnd) == [c EXCEPT !.pc = "json"]

\* seeded fault: a 4xx status is retried like any other failure
OnClientError_Retried(c, rnd) == OnTransient(c, rnd)

\* status.is_client_error(): go on to res.text().await
OnClientError(c, rnd) == [c EXCEPT !.pc = "client_text"]

\* the response arrived: status and headers are taken, the status is classified
OnResponse(c, response, rnd) ==
    LET c1 == [c EXCEPT !.res = response, !.last = "response"] IN
    IF is_success(response.status) THEN OnSuccess(c1, rnd)
    ELSE IF is_client_error(response.status) THEN OnClientError(c1, rnd)
    ELSE OnTransient(c1, rnd)

\* let res = req.send().await?; and the synchronous code up to the next await
SendDone(c, outcome, rnd) ==
    LET c1 == [c EXCEPT !.sends = @ + 1] IN
    IF outcome.ok THEN OnResponse(c1, outcome.response, rnd)
                  ELSE OnSendError(c1, rnd)

\* let json: T = res.json().await?; return Ok((json, status, headers));
JsonDone(c) ==
    LET j == json(c.res.body) IN
    IF j.ok THEN [c EXCEPT !.pc = "done",
                           !.result = Ok(j.value, c.res.status, c.res.headers)]
            ELSE [c EXCEPT !.pc = "done", !.result = Reqwest("decode")]

\* let body = res.text().await.unwrap_or_default(); return Err(ClientError(..));
ClientTextDone(c) ==
    [c EXCEPT !.pc = "done",
              !.result = ClientError(text_unwrap_or_default(c.res.body),
                                     c.res.status, c.res.headers)]

\* seeded fault: the last transient failure is dropped and an empty success returned
OverTextDone_Swallowed(c) ==
    [c EXCEPT !.pc = "done", !.result = Ok("", c.res.status, c.res.headers)]

\* let body = res.text().await.unwrap_or_default(); return Err(RetryOver(..));
OverTextDone(c) ==
    [c EXCEPT !.pc = "done",
              !.result = RetryOver(text_unwrap_or_default(c.res.body),
                                   c.res.status, c.res.headers)]

\* tokio::time::sleep(retry_duration).await is over: the next iteration
SleepDone(c) == [c EXCEPT !.pc = "loop", !.i = @ + 1]

\* seeded fault: the sleep is detached from the call and outlives its future
Dropped_SleepRunsOn(c) ==
    IF c.pc = "sleep" THEN SleepDone(c) ELSE [c EXCEPT !.pc = "cancelled"]

\* the future of the call is dropped while it waits: the request in flight or
\* the timer is dropped with it, and no code of the call runs again
Dropped(c) == [c EXCEPT !.pc = "cancelled"]
----------------------------------------------------------------------------
(* token, src/src/lib.rs:105-139, and XClient::token, src/src/x.rs:170-189. *)

X_TOKEN_URL ==
    <<"h", "t", "t", "p", "s", ":", "/", "/", "a", "p", "i", ".", "x", ".",
        "c", "o", "m", "/", "2", "/", "o", "a", "u", "t", "h", "2", "/", "t",
        "o", "k", "e", "n">>

\* the request the closure of lines 128-134 builds for every attempt
token_request(url, client_id, client_secret, redirect_uri, code, code_verifier, grant_type, timeout) ==
    [method |-> "POST", url |-> url,
     form |-> << <<<<"g", "r", "a", "n", "t", "_", "t", "y", "p",
         "e">>, grant_type>>,
                 <<<<"c", "o", "d", "e">>, code>>,
                 <<<<"r", "e", "d", "i", "r", "e", "c", "t", "_", "u", "r",
                     "i">>, redirect_uri>>,
                 <<<<"c", "l", "i", "e", "n", "t", "_", "i",
                     "d">>, client_id>>,
                 <<<<"c", "o", "d", "e", "_", "v", "e", "r", "i", "f", "i",
                     "e", "r">>, code_verifier>> >>,
     basic_auth |-> <<client_id, Some(client_secret)>>, timeout |-> timeout]

\* token(..): execute_retry is entered with the closure, try_count and retry_millis
token(url, client_id, client_secret, redirect_uri, code, code_verifier, grant_type, timeout, try_count, retry_millis) ==
    [request |-> token_request(url, client_id, client_secret, redirect_uri,
                               code, code_verifier, grant_type, timeout)]
        @@ CallInit(try_count, retry_millis)

\* XClient::token(code, code_verifier)
XClient_token(self, code, code_verifier) ==
    token(X_TOKEN_URL, self.client_id, self.client_secret, self.redirect_uri,
          code, code_verifier, <<"a", "u", "t", "h", "o", "r", "i", "z", "a",
              "t", "i", "o", "n", "_", "c", "o", "d", "e">>, self.timeout,
          self.try_count, self.retry_millis)
----------------------------------------------------------------------------
(* execute_retry_body, which src/src/oauth1a.rs calls and the sources do not *)
(* hold, written from the specification (section 4.4, RetryExecutor): the    *)
(* attempts of one call, the body of a success returned as text.             *)

\* the errors a flow call returns (section 7 of the specification)
Err(error, response) ==
    [kind |-> "Err", error |-> error, body |-> response.body,
     status |-> response.status, headers |-> response.headers]

\* Ok((body, status, headers))
OkBody(response) ==
    [kind |-> "Ok", body |-> response.body, status |-> response.status,
     headers |-> response.headers]

\* the response of an attempt that got none
NoBodyResponse == [status |-> 0, headers |-> <<>>, body |-> <<>>]

\* the executor is entered: with try_count >= 1 attempt 0 is built and sent.
\* Section 4.4 defines the executor for try_count >= 1 only: entered with
\* try_count = 0 it has built nothing, and what it does then is left open
execute_retry_body_Start(try_count, retry_duration) ==
    IF try_count >= 1
        THEN [pc |-> "send", try_count |-> try_count,
              retry_duration |-> retry_duration, i |-> 0, sends |-> 1,
              sleeps |-> <<>>]
        ELSE [pc |-> "unspecified", try_count |-> try_count,
              retry_duration |-> retry_duration, i |-> 0, sends |-> 0,
              sleeps |-> <<>>]

\* a transient outcome of attempt i: a sleep of 2^i * retry_duration + jitter
\* when an attempt is left, else the error given
OnTransientBody(e, jitter, error) ==
    IF e.i + 1 < e.try_count
        THEN [e EXCEPT !.pc = "sleep",
                       !.sleeps = Append(@, (2 ^ e.i) * e.retry_duration + jitter)]
        ELSE [pc |-> "done", try_count |-> e.try_count,
              retry_duration |-> e.retry_duration, i |-> e.i, sends |-> e.sends,
              sleeps |-> e.sleeps, result |-> error]

\* the outcome of the attempt in flight arrives
execute_retry_body_SendDone(e, outcome, jitter) ==
    LET done(result) ==
            [pc |-> "done", try_count |-> e.try_count,
             retry_duration |-> e.retry_duration, i |-> e.i, sends |-> e.sends,
             sleeps |-> e.sleeps, result |-> result]
        res == outcome.response
    IN  IF ~outcome.ok
            THEN OnTransientBody(e, jitter, Err("TransportError", NoBodyResponse))
        ELSE IF is_success(res.status) THEN done(OkBody(res))
        ELSE IF is_client_error(res.status) THEN done(Err("ClientError", res))
        ELSE OnTransientBody(e, jitter, Err("RetriesExhausted", res))

\* the backoff sleep ends: the next attempt is built and sent
execute_retry_body_SleepDone(e) ==
    [e EXCEPT !.pc = "send", !.i = @ + 1, !.sends = @ + 1]

----------------------------------------------------------------------------
(* OAuth1aClient::request_token and OAuth1aClient::access_token,             *)
(* src/src/oauth1a.rs:91-177. A run is the client (self), what the process   *)
(* has written to standard output, and the call in progress with the         *)
(* requests it has built.                                                    *)

\* a client on which no call has been made
OaRun(self) == [pc |-> "made", self |-> self, stdout |-> <<>>]

\* the client after a call on it has returned
OaRunAfter(run) == [pc |-> "made", self |-> run.self, stdout |-> run.stdout]

\* the request the closure of lines 111-116 and 156-161 builds for one attempt
post_request(url, signed, timeout) ==
    [method |-> "POST", url |-> url, authorization |-> signed, timeout |-> timeout]

\* OaAttempt if the closure computed the header anew for every attempt: a retry
\* would carry a header with another nonce and signature
OaAttempt_Resigned(run) ==
    [run EXCEPT !.requests =
                    Append(@, post_request(run.url,
                                           IF run.requests = <<>> THEN run.signed
                                           ELSE run.signed \o <<"'">>,
                                           run.self.timeout))]
\* an attempt of the call is built: the closure is invoked
OaAttempt(run) ==
    [run EXCEPT !.requests =
                    Append(@, post_request(run.url, run.signed, run.self.timeout))]

\* the call up to its first .await: the URL and the signed header are computed,
\* then execute_retry_body is entered with the closure, try_count and
\* retry_duration, and invokes the closure for its first attempt
OaCall(run, op, args, url, sign_key, signed, stdout) ==
    LET entered == [pc |-> "exec", self |-> run.self, stdout |-> stdout,
                    op |-> op, args |-> args, url |-> url,
                    sign_key |-> sign_key, signed |-> signed,
                    requests |-> <<>>,
                    exec |-> execute_retry_body_Start(run.self.try_count,
                                                      run.self.retry_duration)]
    IN  IF entered.exec.pc = "send" THEN OaAttempt(entered) ELSE entered

\* request_token(x_auth_access_type) up to the first .await (lines 95-121),
\* with the nonce and timestamp the signature draws
request_token_Call(run, x_auth_access_type, fresh) ==
    LET self == run.self
        header_options ==
            << <<<<"o", "a", "u", "t", "h", "_", "c", "a", "l", "l", "b",
                "a", "c", "k">>, self.callback_url>> >>
                \o (IF x_auth_access_type.some
                        THEN << <<<<"x", "_", "a", "u", "t", "h", "_", "a",
                            "c", "c", "e", "s", "s", "_", "t", "y", "p",
                            "e">>,
                                  XAuthAccessType_as_str(x_auth_access_type.value)>> >>
                        ELSE <<>>)
        url == make_url(BASE_URL_PREFIX, REQUEST_TOKEN_URL_POSTFIX, self.prefix_url)
        sign_key == self.consumer_secret \o <<"&">>
        signed == <<"O", "A", "u", "t", "h", " ">>
                      \o calc_oauth_header(sign_key, self.consumer_key,
                                           header_options, <<"P", "O", "S",
                                               "T">>, url, <<>>, fresh)
    IN  OaCall(run, "request_token", [x_auth_access_type |-> x_auth_access_type],
               url, sign_key, signed, Append(run.stdout, <<"s", "i", "g",
                   "n", "e", "d", ":", " ">> \o signed))

\* seeded fault: access_token signs with the consumer secret alone
access_token_Call_NoTokenSecret(run, oauth_token, oauth_token_secret, oauth_verifier, fresh) ==
    LET self == run.self
        url == make_url(BASE_URL_PREFIX, ACCESS_TOKEN_URL_POSTFIX, self.prefix_url)
        sign_key == self.consumer_secret \o <<"&">>
        signed == <<"O", "A", "u", "t", "h", " ">>
                      \o calc_oauth_header(sign_key, self.consumer_key,
                                           << <<<<"o", "a", "u", "t", "h",
                                               "_", "t", "o", "k", "e",
                                               "n">>, oauth_token>>,
                                              <<<<"o", "a", "u", "t", "h",
                                                  "_", "v", "e", "r", "i",
                                                  "f", "i", "e",
                                                  "r">>, oauth_verifier>> >>,
                                           <<"P", "O", "S",
                                               "T">>, url, <<>>, fresh)
    IN  OaCall(run, "access_token",
               [oauth_token |-> oauth_token, oauth_token_secret |-> oauth_token_secret,
                oauth_verifier |-> oauth_verifier],
               url, sign_key, signed, run.stdout)
\* access_token(oauth_token, oauth_token_secret, oauth_verifier) up to the
\* first .await (lines 143-167), with the nonce and timestamp the signature draws
access_token_Call(run, oauth_token, oauth_token_secret, oauth_verifier, fresh) ==
    LET self == run.self
        url == make_url(BASE_URL_PREFIX, ACCESS_TOKEN_URL_POSTFIX, self.prefix_url)
        sign_key == self.consumer_secret \o <<"&">> \o oauth_token_secret
        signed == <<"O", "A", "u", "t", "h", " ">>
                      \o calc_oauth_header(sign_key, self.consumer_key,
                                           << <<<<"o", "a", "u", "t", "h",
                                               "_", "t", "o", "k", "e",
                                               "n">>, oauth_token>>,
                                              <<<<"o", "a", "u", "t", "h",
                                                  "_", "v", "e", "r", "i",
                                                  "f", "i", "e",
                                                  "r">>, oauth_verifier>> >>,
                                           <<"P", "O", "S",
                                               "T">>, url, <<>>, fresh)
    IN  OaCall(run, "access_token",
               [oauth_token |-> oauth_token, oauth_token_secret |-> oauth_token_secret,
                oauth_verifier |-> oauth_verifier],
               url, sign_key, signed, run.stdout)

\* seeded fault: the client remembers what its last call returned
OaEnd_StoresResult(run, exec, pc, result) ==
    [pc |-> pc, self |-> [last_result |-> result] @@ run.self,
     stdout |-> run.stdout, op |-> run.op,
     args |-> run.args, url |-> run.url, sign_key |-> run.sign_key,
     signed |-> run.signed, requests |-> run.requests, exec |-> exec,
     result |-> result]
\* the call ends
OaEnd(run, exec, pc, result) ==
    [pc |-> pc, self |-> run.self, stdout |-> run.stdout, op |-> run.op,
     args |-> run.args, url |-> run.url, sign_key |-> run.sign_key,
     signed |-> run.signed, requests |-> run.requests, exec |-> exec,
     result |-> result]

\* a panic of the call: it returns nothing
OaPanic(run, exec, cause) ==
    OaEnd(run, exec, "panic", [kind |-> "Panic", cause |-> cause])

\* the call returns a value
OaReturn(run, exec, result) == OaEnd(run, exec, "returned", result)

\* request_token after execute_retry_body returned Ok (lines 122-134)
request_token_Parse(run, exec) ==
    LET map == parse_oauth_body(exec.result.body)
        oauth_token == map_get(map, <<"o", "a", "u", "t", "h", "_", "t", "o",
            "k", "e", "n">>)
        oauth_token_secret == map_get(map, <<"o", "a", "u", "t", "h", "_",
            "t", "o", "k", "e", "n", "_", "s", "e", "c", "r", "e", "t">>)
        oauth_callback_confirmed == map_get(map, <<"o", "a", "u", "t", "h",
            "_", "c", "a", "l", "l", "b", "a", "c", "k", "_", "c", "o", "n",
            "f", "i", "r", "m", "e", "d">>)
    IN  IF ~oauth_token.some THEN OaPanic(run, exec, "unwrap_none:123")
        ELSE IF ~oauth_token_secret.some THEN OaPanic(run, exec, "unwrap_none:124")
        ELSE IF ~oauth_callback_confirmed.some THEN OaPanic(run, exec, "unwrap_none:125")
        ELSE OaReturn(run, exec,
                 [kind |-> "Ok",
                  value |-> [response |->
                                 [oauth_token |-> oauth_token.value,
                                  oauth_token_secret |-> oauth_token_secret.value,
                                  oauth_callback_confirmed |->
                                      oauth_callback_confirmed.value],
                             url |-> AUTHORIZE_URL \o oauth_token.value]])

\* access_token after execute_retry_body returned Ok (lines 168-176)
access_token_Parse(run, exec) ==
    LET map == parse_oauth_body(exec.result.body)
        oauth_token == map_get(map, <<"o", "a", "u", "t", "h", "_", "t", "o",
            "k", "e", "n">>)
        oauth_token_secret == map_get(map, <<"o", "a", "u", "t", "h", "_",
            "t", "o", "k", "e", "n", "_", "s", "e", "c", "r", "e", "t">>)
        screen_name == map_get(map, <<"s", "c", "r", "e", "e", "n", "_", "n",
            "a", "m", "e">>)
    IN  IF ~oauth_token.some THEN OaPanic(run, exec, "unwrap_none:169")
        ELSE IF ~oauth_token_secret.some THEN OaPanic(run, exec, "unwrap_none:170")
        ELSE IF ~screen_name.some THEN OaPanic(run, exec, "unwrap_none:171")
        ELSE OaReturn(run, exec,
                 [kind |-> "Ok",
                  value |-> [oauth_token |-> oauth_token.value,
                             oauth_token_secret |-> oauth_token_secret.value,
                             screen_name |-> screen_name.value]])

\* request_token resumes with the state of execute_retry_body: it waits on, or
\* returns the error (the ? of line 121), or parses the body
request_token_Resume(run, exec) ==
    IF exec.pc # "done" THEN [run EXCEPT !.exec = exec]
    ELSE IF exec.result.kind = "Err" THEN OaReturn(run, exec, exec.result)
    ELSE request_token_Parse(run, exec)

\* access_token resumes with the state of execute_retry_body: it waits on, or
\* returns the error (the ? of line 167), or parses the body
access_token_Resume(run, exec) ==
    IF exec.pc # "done" THEN [run EXCEPT !.exec = exec]
    ELSE IF exec.result.kind = "Err" THEN OaReturn(run, exec, exec.result)
    ELSE access_token_Parse(run, exec)

\* the outcome of the attempt in flight arrives
request_token_SendDone(run, outcome, jitter) ==
    request_token_Resume(run, execute_retry_body_SendDone(run.exec, outcome, jitter))

access_token_SendDone(run, outcome, jitter) ==
    access_token_Resume(run, execute_retry_body_SendDone(run.exec, outcome, jitter))

\* the backoff sleep ends: the next attempt is built and sent
request_token_SleepDone(run) ==
    request_token_Resume(OaAttempt(run), execute_retry_body_SleepDone(run.exec))

access_token_SleepDone(run) ==
    access_token_Resume(OaAttempt(run), execute_retry_body_SleepDone(run.exec))
----------------------------------------------------------------------------
----------------------------------------------------------------------------
(* The specification of one call of execute_retry. *)

\* the state of an operation that is not called in a specification
Idle == [pc |-> "idle"]

RetryInit ==
    /\ call \in {CallInit(tc, rm) : tc \in 0..MaxTry, rm \in 0..MaxMillis}
    /\ pkce = Idle
    /\ xc = Idle
    /\ oa = Idle
    /\ oa2 = Idle
    /\ call2 = Idle
    /\ caller = Idle
    /\ parsed = Idle
    /\ norm = Idle

Loop == call.pc = "loop" /\ call' = ForNext(call) /\ UNCHANGED <<pkce, xc, oa, oa2, call2, caller, parsed, norm>>

Send ==
    /\ call.pc = "send"
    /\ \E outcome \in SendOutcomes, rnd \in 0..MaxRand :
           call' = SendDone(call, outcome, rnd)
    /\ UNCHANGED <<pkce, xc, oa, oa2, call2, caller, parsed, norm>>

ReadJson == call.pc = "json" /\ call' = JsonDone(call) /\ UNCHANGED <<pkce, xc, oa, oa2, call2, caller, parsed, norm>>

ReadClientText ==
    call.pc = "client_text" /\ call' = ClientTextDone(call) /\ UNCHANGED <<pkce, xc, oa, oa2, call2, caller, parsed, norm>>

ReadOverText ==
    call.pc = "over_text" /\ call' = OverTextDone(call) /\ UNCHANGED <<pkce, xc, oa, oa2, call2, caller, parsed, norm>>

Sleep == call.pc = "sleep" /\ call' = SleepDone(call) /\ UNCHANGED <<pkce, xc, oa, oa2, call2, caller, parsed, norm>>

RetryNext == Loop \/ Send \/ ReadJson \/ ReadClientText \/ ReadOverText \/ Sleep

SpecRetry == RetryInit /\ [][RetryNext]_vars

----------------------------------------------------------------------------
(* The specification of PkceS256::new: each call draws its 32 random bytes. *)

PkceInit ==
    /\ pkce = [pc |-> "new"]
    /\ call = Idle
    /\ xc = Idle
    /\ oa = Idle
    /\ oa2 = Idle
    /\ call2 = Idle
    /\ caller = Idle
    /\ parsed = Idle
    /\ norm = Idle

\* PkceS256::new()
PkceNew ==
    /\ pkce.pc = "new"
    /\ \E random_bytes \in RandomSamples(MaxStride, MaxOffset) :
           pkce' = [pc |-> "made", random_bytes |-> random_bytes,
                    value |-> PkceS256_new(random_bytes)]
    /\ UNCHANGED <<call, xc, oa, oa2, call2, caller, parsed, norm>>
PkceNext == PkceNew

SpecPkce == PkceInit /\ [][PkceNext]_vars

----------------------------------------------------------------------------
(* The specification of XClient::authorize_url: a client is constructed,    *)
(* then authorize_url is called on it once.                                 *)

\* the client ids, client secrets, redirect URIs, scope lists and states of the model
XClientIds == {<<"c", "i", "d">>, <<"m", "y", " ", "i", "d", "+", "1">>}

XClientSecrets == {<<"s", "h", "h">>}

XRedirectUris == {<<"h", "t", "t", "p", "s", ":", "/", "/", "e", "x", "a",
    "m", "p", "l", "e", ".", "c", "o", "m", "/", "c", "b">>, <<"h", "t", "t",
    "p", ":", "/", "/", "l", "o", "c", "a", "l", "h", "o", "s", "t", ":",
    "3", "0", "0", "0", "/", "c", "b", "?", "x", "=", "1", "&", "y", "=",
    "2">>}

XScopeLists == {<<>>, <<"TweetRead", "UsersRead", "OfflineAccess">>}

XStates ==
    {<<"s", "t", "a", "t", "e", "1">>,
     <<"a", " ", "b", "&", "c", "=", "d", "%", "#">>,
     <<>>}

\* the clients the model constructs: the combinations of the small values, and one
\* client with every scope
XClients ==
    {XClient_new(client_id, client_secret, redirect_uri, scopes) :
        client_id \in XClientIds, client_secret \in XClientSecrets,
        redirect_uri \in XRedirectUris, scopes \in XScopeLists}
    \cup {XClient_new(<<"c", "i", "d">>, <<"s", "h", "h">>, <<"h", "t", "t",
        "p", "s", ":", "/", "/", "e", "x", "a", "m", "p", "l", "e", ".", "c",
        "o", "m", "/", "c", "b">>, XScope_all)}

XInit ==
    /\ xc \in XClients
    /\ call = Idle
    /\ pkce = Idle
    /\ oa = Idle
    /\ oa2 = Idle
    /\ call2 = Idle
    /\ caller = Idle
    /\ parsed = Idle
    /\ norm = Idle

\* XClient::authorize_url(state)
XAuthorizeUrl ==
    /\ xc.pc = "made"
    /\ \E state \in XStates, random_bytes \in RandomSamples(MaxXStride, MaxXOffset) :
           xc' = XClient_authorize_url(xc, state, random_bytes)
    /\ UNCHANGED <<call, pkce, oa, oa2, call2, caller, parsed, norm>>

XNext == XAuthorizeUrl

SpecX == XInit /\ [][XNext]_vars
----------------------------------------------------------------------------
(* The specification of OAuth1aClient::request_token: one call on a client   *)
(* (oa), and the same call, with the same environment, on a client that      *)
(* differs from it in its consumer secret only (oa2).                        *)

\* OAuth1aClient::new: Duration::from_millis(100), Duration::from_secs(10)
DefaultRetryMillis == 100
DefaultTimeoutMillis == 10000

OaConsumerKey ==
    <<"c", "k">>

\* the consumer secrets of the two clients
OaConsumerSecret ==
    <<"s", "1">>

OaOtherConsumerSecret ==
    <<"s", "2">>

OaCallbackUrl ==
    <<"h", "t", "t", "p", "s", ":", "/", "/", "e", "x", "a", "m", "p", "l",
        "e", ".", "c", "o", "m", "/", "c", "b", "?", "a", "=", "b">>

OaPrefixUrls == {None, Some(<<"h", "t", "t", "p", ":", "/", "/", "l", "o",
    "c", "a", "l", "h", "o", "s", "t", ":", "8", "0", "8", "0">>)}

OaAccessTypes == {None, Some("Write")}

\* the nonce and timestamp a signature draws
OaFreshes ==
    {[nonce |-> <<"n", "0", "n", "c", "e">>, timestamp |-> <<"1", "7", "0",
        "0", "0", "0", "0", "0", "0", "0">>]}

\* the jitter of a sleep: samples of uniform_random(0, retry_duration)
OaJitters == {0, DefaultRetryMillis - 1}

\* the items the bodies of the model are made of
OaItems ==
    {<<"o", "a", "u", "t", "h", "_", "t", "o", "k", "e", "n", "=", "a", "b",
        "c">>,
     <<"o", "a", "u", "t", "h", "_", "t", "o", "k", "e", "n", "_", "s", "e",
         "c", "r", "e", "t", "=", "x", "y", "z">>,
     <<"o", "a", "u", "t", "h", "_", "c", "a", "l", "l", "b", "a", "c", "k",
         "_", "c", "o", "n", "f", "i", "r", "m", "e", "d", "=", "t", "r",
         "u", "e">>,
     <<"o", "a", "u", "t", "h", "_", "t", "o", "k", "e", "n", "=", "a", "=",
         "b">>}

\* the success bodies: up to MaxItems items joined by &
OaBodies ==
    {Join(items, <<"&">>) : items \in UNION {[1..n -> OaItems] : n \in 0..MaxItems}}

\* what the endpoint can answer: a success with any body, or another status
OaResponses ==
    {[status |-> 200, headers |-> <<>>, body |-> body] : body \in OaBodies}
        \cup {[status |-> status, headers |-> <<>>, body |-> <<"o", "o", "p",
            "s">>] :
                 status \in {302, 404, 500}}

\* what one send can produce: a response, or a transport failure
OaSendOutcomes ==
    {[ok |-> TRUE, response |-> response] : response \in OaResponses}
        \cup {[ok |-> FALSE, response |-> NoBodyResponse]}

\* the jitters an attempt can draw: one is drawn only when a sleep follows
OaJittersDrawn(e, outcome) ==
    IF execute_retry_body_SendDone(e, outcome, 0).pc = "sleep" THEN OaJitters ELSE {0}

OaClient(consumer_secret, try_count, prefix_url) ==
    OAuth1aClient_new_with_options(OaConsumerKey, consumer_secret, OaCallbackUrl,
                                   try_count, DefaultRetryMillis,
                                   DefaultTimeoutMillis, prefix_url)

OaInit ==
    /\ \E try_count \in 1..MaxOaTry, prefix_url \in OaPrefixUrls :
           /\ oa = OaRun(OaClient(OaConsumerSecret, try_count, prefix_url))
           /\ oa2 = OaRun(OaClient(OaOtherConsumerSecret, try_count, prefix_url))
    /\ call = Idle
    /\ pkce = Idle
    /\ xc = Idle
    /\ call2 = Idle
    /\ caller = Idle
    /\ parsed = Idle
    /\ norm = Idle

\* request_token(x_auth_access_type) is called
OaRequestToken ==
    /\ oa.pc = "made"
    /\ \E x_auth_access_type \in OaAccessTypes, fresh \in OaFreshes :
           /\ oa' = request_token_Call(oa, x_auth_access_type, fresh)
           /\ oa2' = request_token_Call(oa2, x_auth_access_type, fresh)
    /\ UNCHANGED <<call, pkce, xc, call2, caller, parsed, norm>>

\* the attempt in flight ends
OaSendDone ==
    /\ oa.pc = "exec" /\ oa.exec.pc = "send"
    /\ \E outcome \in OaSendOutcomes :
           \E jitter \in OaJittersDrawn(oa.exec, outcome) :
               /\ oa' = request_token_SendDone(oa, outcome, jitter)
               /\ oa2' = request_token_SendDone(oa2, outcome, jitter)
    /\ UNCHANGED <<call, pkce, xc, call2, caller, parsed, norm>>

\* the backoff sleep ends
OaSleepDone ==
    /\ oa.pc = "exec" /\ oa.exec.pc = "sleep"
    /\ oa' = request_token_SleepDone(oa)
    /\ oa2' = request_token_SleepDone(oa2)
    /\ UNCHANGED <<call, pkce, xc, call2, caller, parsed, norm>>

OaNext == OaRequestToken \/ OaSendDone \/ OaSleepDone

SpecOAuth1 == OaInit /\ [][OaNext]_vars
----------------------------------------------------------------------------
(* The specification of a caller of an OAuth1aClient: it calls request_token *)
(* and access_token in any order, one call at a time, and holds what the     *)
(* calls return.                                                             *)

\* the calls one caller makes
MaxCalls == 2

\* a consumer secret with characters outside the unreserved set
OaReservedConsumerSecret ==
    <<"s", "+", "/", "2">>

FlowConsumerSecrets == {OaConsumerSecret, OaReservedConsumerSecret}

\* the request tokens, token secrets and verifiers a caller passes besides the
\* ones it holds
FlowTokens == {<<"a", "b", "c">>}

FlowTokenSecrets == {<<"x", "/", "z", "=">>}

FlowVerifiers == {<<"v", "3", "r">>}

\* the bodies of the successes: a request token, an access token, and a body
\* without most fields
FlowBodies ==
    {<<"o", "a", "u", "t", "h", "_", "t", "o", "k", "e", "n", "=", "a", "b",
        "c", "&", "o", "a", "u", "t", "h", "_", "t", "o", "k", "e", "n", "_",
        "s", "e", "c", "r", "e", "t", "=", "x", "y", "z", "&", "o", "a", "u",
        "t", "h", "_", "c", "a", "l", "l", "b", "a", "c", "k", "_", "c", "o",
        "n", "f", "i", "r", "m", "e", "d", "=", "t", "r", "u", "e">>,
     <<"o", "a", "u", "t", "h", "_", "t", "o", "k", "e", "n", "=", "t", "o",
         "k", "&", "o", "a", "u", "t", "h", "_", "t", "o", "k", "e", "n",
         "_", "s", "e", "c", "r", "e", "t", "=", "s", "e", "c", "&", "s",
         "c", "r", "e", "e", "n", "_", "n", "a", "m", "e", "=", "b", "o",
         "b">>,
     <<"o", "a", "u", "t", "h", "_", "t", "o", "k", "e", "n", "=", "a", "b",
         "c">>}

FlowResponses ==
    {[status |-> 200, headers |-> <<>>, body |-> body] : body \in FlowBodies}
        \cup {[status |-> status, headers |-> <<>>, body |-> <<"o", "o", "p",
            "s">>] :
                 status \in {404, 500}}

FlowSendOutcomes ==
    {[ok |-> TRUE, response |-> response] : response \in FlowResponses}
        \cup {[ok |-> FALSE, response |-> NoBodyResponse]}

\* what the caller holds on entry
CallerInit == [calls |-> 0, request_tokens |-> <<>>, access_tokens |-> <<>>]

\* the caller makes a call
CallerCalls(c) == [c EXCEPT !.calls = @ + 1]

\* the caller keeps the token a call returned
CallerKeeps(c, run) ==
    IF run.pc = "returned" /\ run.result.kind = "Ok"
        THEN IF run.op = "request_token"
                 THEN [c EXCEPT !.request_tokens = Append(@, run.result.value.response)]
                 ELSE [c EXCEPT !.access_tokens = Append(@, run.result.value)]
        ELSE c

\* the token secrets the caller can pass: the ones it holds, and others
CallerTokenSecrets(c) ==
    FlowTokenSecrets
        \cup {c.request_tokens[k].oauth_token_secret : k \in 1..Len(c.request_tokens)}

FlowInit ==
    /\ \E consumer_secret \in FlowConsumerSecrets, try_count \in 1..MaxOaTry :
           oa = OaRun(OaClient(consumer_secret, try_count, None))
    /\ caller = CallerInit
    /\ call = Idle
    /\ pkce = Idle
    /\ xc = Idle
    /\ oa2 = Idle
    /\ call2 = Idle
    /\ parsed = Idle
    /\ norm = Idle

\* request_token(None) is called
FlowRequestToken ==
    /\ oa.pc = "made" /\ caller.calls < MaxCalls
    /\ \E fresh \in OaFreshes : oa' = request_token_Call(oa, None, fresh)
    /\ caller' = CallerCalls(caller)
    /\ UNCHANGED <<call, pkce, xc, oa2, call2, parsed, norm>>

\* access_token(oauth_token, oauth_token_secret, oauth_verifier) is called
FlowAccessToken ==
    /\ oa.pc = "made" /\ caller.calls < MaxCalls
    /\ \E oauth_token \in FlowTokens, oauth_token_secret \in CallerTokenSecrets(caller),
          oauth_verifier \in FlowVerifiers, fresh \in OaFreshes :
           oa' = access_token_Call(oa, oauth_token, oauth_token_secret,
                                   oauth_verifier, fresh)
    /\ caller' = CallerCalls(caller)
    /\ UNCHANGED <<call, pkce, xc, oa2, call2, parsed, norm>>

\* the attempt in flight ends
FlowSendDone ==
    /\ oa.pc = "exec" /\ oa.exec.pc = "send"
    /\ \E outcome \in FlowSendOutcomes :
           \E jitter \in OaJittersDrawn(oa.exec, outcome) :
               oa' = IF oa.op = "request_token"
                         THEN request_token_SendDone(oa, outcome, jitter)
                         ELSE access_token_SendDone(oa, outcome, jitter)
    /\ UNCHANGED <<call, pkce, xc, oa2, call2, caller, parsed, norm>>

\* the backoff sleep ends
FlowSleepDone ==
    /\ oa.pc = "exec" /\ oa.exec.pc = "sleep"
    /\ oa' = IF oa.op = "request_token" THEN request_token_SleepDone(oa)
                                        ELSE access_token_SleepDone(oa)
    /\ UNCHANGED <<call, pkce, xc, oa2, caller, call2, parsed, norm>>

\* the call has returned: the caller takes its result, and the client is free
\* for the next call
FlowReturn ==
    /\ oa.pc = "returned"
    /\ oa' = OaRunAfter(oa)
    /\ caller' = CallerKeeps(caller, oa)
    /\ UNCHANGED <<call, pkce, xc, oa2, call2, parsed, norm>>

FlowNext ==
    \/ FlowRequestToken \/ FlowAccessToken \/ FlowSendDone \/ FlowSleepDone
    \/ FlowReturn

SpecFlow == FlowInit /\ [][FlowNext]_vars
----------------------------------------------------------------------------
(* The specification of two calls of XClient::token on one client, both in   *)
(* flight: each step is a step of one of the two calls, in any order.        *)

\* the attempts, the delay and the random numbers of the two calls
MaxPairTry == 2
MaxPairMillis == 1
MaxPairRand == 1

PairClients ==
    {XClient_new_with_token_options(<<"c", "i", "d">>, <<"s", "h",
        "h">>, <<"h", "t", "t", "p", "s", ":", "/", "/", "e", "x", "a", "m",
        "p", "l", "e", ".", "c", "o", "m", "/", "c", "b">>,
                                    <<>>, try_count, retry_millis,
                                    DefaultTimeoutMillis) :
        try_count \in 0..MaxPairTry, retry_millis \in 0..MaxPairMillis}

\* what the token endpoint answers to the two calls
PairResponses ==
    {[status |-> 200, headers |-> <<>>, body |-> [readable |-> TRUE, text |-> "tok"]]}
        \cup [status : {404, 500}, headers : {<<>>},
              body : {[readable |-> TRUE, text |-> "oops"]}]

PairSendOutcomes ==
    {[ok |-> FALSE, response |-> NoResponse]}
        \cup {[ok |-> TRUE, response |-> r] : r \in PairResponses}

\* whether the send that received the outcome reaches line 163: the status is
\* neither 2xx nor 4xx and i + 1 < try_count, whatever retry_millis is
RandDrawn(c, outcome) ==
    /\ outcome.ok
    /\ ~is_success(outcome.response.status)
    /\ ~is_client_error(outcome.response.status)
    /\ c.i + 1 < c.try_count

\* the values rand::random::<u64>() can give where it is called (line 163: the
\* draw is made before the remainder by retry_millis is taken, so also when
\* retry_millis is 0 and the remainder panics); 0 stands in where it is not
PairRandsDrawn(c, outcome) ==
    IF RandDrawn(c, outcome) THEN 0..MaxPairRand ELSE {0}

\* a call together with the outcomes its sends have received so far
Observed(c) == [seen |-> <<>>] @@ c

\* the two calls on entry
FirstCall(self) == Observed(XClient_token(self, <<"c", "o", "d", "e",
    "1">>, <<"v", "e", "r", "i", "f", "i", "e", "r", "1">>))

SecondCall(self) == Observed(XClient_token(self, <<"c", "o", "d", "e",
    "2">>, <<"v", "e", "r", "i", "f", "i", "e", "r", "2">>))

PairInit ==
    /\ xc \in PairClients
    /\ call = FirstCall(xc)
    /\ call2 = SecondCall(xc)
    /\ pkce = Idle
    /\ oa = Idle
    /\ oa2 = Idle
    /\ caller = Idle
    /\ parsed = Idle
    /\ norm = Idle

\* the steps of execute_retry on a call c, giving cn
StepLoop(c, cn) == c.pc = "loop" /\ cn = ForNext(c)

StepSend(c, cn) ==
    /\ c.pc = "send"
    /\ \E outcome \in PairSendOutcomes :
           \E rnd \in PairRandsDrawn(c, outcome) :
               cn = [SendDone(c, outcome, rnd) EXCEPT
                         !.seen = Append(@, [outcome |-> outcome, rnd |-> rnd,
                                             drawn |-> RandDrawn(c, outcome)])]

StepReadJson(c, cn) == c.pc = "json" /\ cn = JsonDone(c)

StepReadClientText(c, cn) == c.pc = "client_text" /\ cn = ClientTextDone(c)

StepReadOverText(c, cn) == c.pc = "over_text" /\ cn = OverTextDone(c)

StepSleep(c, cn) == c.pc = "sleep" /\ cn = SleepDone(c)

\* a step of the first call
FirstLoop == StepLoop(call, call') /\ UNCHANGED <<pkce, xc, oa, oa2, call2, caller, parsed, norm>>

FirstSend == StepSend(call, call') /\ UNCHANGED <<pkce, xc, oa, oa2, call2, caller, parsed, norm>>

FirstReadJson == StepReadJson(call, call') /\ UNCHANGED <<pkce, xc, oa, oa2, call2, caller, parsed, norm>>

FirstReadClientText ==
    StepReadClientText(call, call') /\ UNCHANGED <<pkce, xc, oa, oa2, call2, caller, parsed, norm>>

FirstReadOverText ==
    StepReadOverText(call, call') /\ UNCHANGED <<pkce, xc, oa, oa2, call2, caller, parsed, norm>>

FirstSleep == StepSleep(call, call') /\ UNCHANGED <<pkce, xc, oa, oa2, call2, caller, parsed, norm>>

\* a step of the second call
SecondLoop == StepLoop(call2, call2') /\ UNCHANGED <<call, pkce, xc, oa, oa2, caller, parsed, norm>>

SecondSend == StepSend(call2, call2') /\ UNCHANGED <<call, pkce, xc, oa, oa2, caller, parsed, norm>>

SecondReadJson == StepReadJson(call2, call2') /\ UNCHANGED <<call, pkce, xc, oa, oa2, caller, parsed, norm>>

SecondReadClientText ==
    StepReadClientText(call2, call2') /\ UNCHANGED <<call, pkce, xc, oa, oa2, caller, parsed, norm>>

SecondReadOverText ==
    StepReadOverText(call2, call2') /\ UNCHANGED <<call, pkce, xc, oa, oa2, caller, parsed, norm>>

SecondSleep == StepSleep(call2, call2') /\ UNCHANGED <<call, pkce, xc, oa, oa2, caller, parsed, norm>>

PairNext ==
    \/ FirstLoop \/ FirstSend \/ FirstReadJson \/ FirstReadClientText
    \/ FirstReadOverText \/ FirstSleep
    \/ SecondLoop \/ SecondSend \/ SecondReadJson \/ SecondReadClientText
    \/ SecondReadOverText \/ SecondSleep

SpecPair == PairInit /\ [][PairNext]_vars
----------------------------------------------------------------------------
(* The specification of one call of XClient::token whose caller may cancel   *)
(* it: the future of the call is dropped while it waits at an .await.        *)

CancelClients ==
    {XClient_new_with_token_options(<<"c", "i", "d">>, <<"s", "h",
        "h">>, <<"h", "t", "t", "p", "s", ":", "/", "/", "e", "x", "a", "m",
        "p", "l", "e", ".", "c", "o", "m", "/", "c", "b">>,
                                    <<>>, try_count, retry_millis,
                                    DefaultTimeoutMillis) :
        try_count \in 0..MaxTry, retry_millis \in 0..MaxMillis}

\* the places where execute_retry waits: req.send().await, res.json().await,
\* res.text().await (twice) and tokio::time::sleep(..).await
AwaitPoints == {"send", "json", "client_text", "over_text", "sleep"}

CancelInit ==
    /\ xc \in CancelClients
    /\ call = XClient_token(xc, <<"c", "o", "d", "e", "1">>, <<"v", "e", "r",
        "i", "f", "i", "e", "r", "1">>)
    /\ caller = [cancelled |-> FALSE]
    /\ pkce = Idle
    /\ oa = Idle
    /\ oa2 = Idle
    /\ call2 = Idle
    /\ parsed = Idle
    /\ norm = Idle

\* the caller drops the future of the call
Cancel ==
    /\ call.pc \in AwaitPoints
    /\ call' = Dropped(call)
    /\ caller' = [cancelled |-> TRUE]
    /\ UNCHANGED <<pkce, xc, oa, oa2, call2, parsed, norm>>

CancelNext == RetryNext \/ Cancel

SpecCancel == CancelInit /\ [][CancelNext]_vars
----------------------------------------------------------------------------
(* The specification of the constructors: an OAuth1aClient and an XClient    *)
(* are constructed from credentials that may be empty, and the first call is *)
(* made on the OAuth1aClient.                                                *)

\* a client that is not constructed yet
Unmade == [pc |-> "unmade"]

\* the credentials given to the constructors: the empty text among them
NewConsumerKeys == {<<>>, OaConsumerKey}

NewConsumerSecrets == {<<>>, OaConsumerSecret}

NewClientIds == {<<>>, <<"c", "i", "d">>}

NewClientSecrets == {<<>>, <<"s", "h", "h">>}

NewInit ==
    /\ oa = Unmade
    /\ xc = Unmade
    /\ call = Idle
    /\ pkce = Idle
    /\ oa2 = Idle
    /\ call2 = Idle
    /\ caller = Idle
    /\ parsed = Idle
    /\ norm = Idle

\* OAuth1aClient::new(consumer_key, consumer_secret, callback_url)
NewOAuth1aClient ==
    /\ oa.pc = "unmade"
    /\ \E consumer_key \in NewConsumerKeys, consumer_secret \in NewConsumerSecrets :
           oa' = OaRun(OAuth1aClient_new(consumer_key, consumer_secret, OaCallbackUrl))
    /\ UNCHANGED <<call, pkce, xc, oa2, call2, caller, parsed, norm>>

\* OAuth1aClient::new_with_options(..)
NewOAuth1aClientWithOptions ==
    /\ oa.pc = "unmade"
    /\ \E consumer_key \in NewConsumerKeys, consumer_secret \in NewConsumerSecrets,
          try_count \in 0..MaxOaTry, prefix_url \in OaPrefixUrls :
           oa' = OaRun(OAuth1aClient_new_with_options(
                           consumer_key, consumer_secret, OaCallbackUrl, try_count,
                           DefaultRetryMillis, DefaultTimeoutMillis, prefix_url))
    /\ UNCHANGED <<call, pkce, xc, oa2, call2, caller, parsed, norm>>

\* XClient::new(client_id, client_secret, redirect_uri, scopes)
NewXClient ==
    /\ xc.pc = "unmade"
    /\ \E client_id \in NewClientIds, client_secret \in NewClientSecrets :
           xc' = XClient_new(client_id, client_secret, <<"h", "t", "t", "p",
               "s", ":", "/", "/", "e", "x", "a", "m", "p", "l", "e", ".",
               "c", "o", "m", "/", "c", "b">>, <<>>)
    /\ UNCHANGED <<call, pkce, oa, oa2, call2, caller, parsed, norm>>

\* XClient::new_with_token_options(..)
NewXClientWithTokenOptions ==
    /\ xc.pc = "unmade"
    /\ \E client_id \in NewClientIds, client_secret \in NewClientSecrets,
          try_count \in {0, 1} :
           xc' = XClient_new_with_token_options(
                     client_id, client_secret, <<"h", "t", "t", "p", "s",
                         ":", "/", "/", "e", "x", "a", "m", "p", "l", "e",
                         ".", "c", "o", "m", "/", "c", "b">>, <<>>,
                     try_count, 0, DefaultTimeoutMillis)
    /\ UNCHANGED <<call, pkce, oa, oa2, call2, caller, parsed, norm>>

\* the first call on the OAuth1aClient: request_token(None) runs up to its
\* first .await
NewRequestToken ==
    /\ oa.pc = "made"
    /\ \E fresh \in OaFreshes : oa' = request_token_Call(oa, None, fresh)
    /\ UNCHANGED <<call, pkce, xc, oa2, call2, caller, parsed, norm>>

NewNext ==
    \/ NewOAuth1aClient \/ NewOAuth1aClientWithOptions
    \/ NewXClient \/ NewXClientWithTokenOptions \/ NewRequestToken

SpecNew == NewInit /\ [][NewNext]_vars
----------------------------------------------------------------------------
(* The specification of the four calls of the flows: request_token and       *)
(* access_token on an OAuth1aClient (as in SpecFlow), or authorize_url and   *)
(* then token on an XClient.                                                 *)

FrameStates == {<<"s", "t", "a", "t", "e", "1">>}

\* a process has an OAuth1aClient, or an XClient on which nothing is called yet
FrameInit ==
    \/ FlowInit
    \/ /\ xc \in PairClients
       /\ call = Idle
       /\ pkce = Idle
       /\ oa = Idle
       /\ oa2 = Idle
       /\ call2 = Idle
       /\ caller = Idle
       /\ parsed = Idle
       /\ norm = Idle

\* XClient::authorize_url(state)
FrameAuthorizeUrl ==
    /\ xc.pc = "made" /\ call.pc = "idle"
    /\ \E state \in FrameStates, random_bytes \in RandomSamples(MaxXStride, MaxXOffset) :
           xc' = XClient_authorize_url(xc, state, random_bytes)
    /\ UNCHANGED <<call, pkce, oa, oa2, call2, caller, parsed, norm>>

\* XClient::token(code, code_verifier)
FrameToken ==
    /\ xc.pc \in {"made", "returned"} /\ call.pc = "idle"
    /\ call' = FirstCall(xc)
    /\ UNCHANGED <<pkce, xc, oa, oa2, call2, caller, parsed, norm>>

FrameNext ==
    \/ FlowRequestToken \/ FlowAccessToken \/ FlowSendDone \/ FlowSleepDone
    \/ FlowReturn
    \/ FrameAuthorizeUrl \/ FrameToken
    \/ FirstLoop \/ FirstSend \/ FirstReadJson \/ FirstReadClientText
    \/ FirstReadOverText \/ FirstSleep

SpecFrame == FrameInit /\ [][FrameNext]_vars
----------------------------------------------------------------------------
(* The specification of parse_oauth_body: it is called once on a body.       *)

\* the items of a body of the model
MaxParseItems == 3

\* items with a value, with an empty value, with no =, with two =, with a
\* value that ends in =, with an empty key, and the empty item
ParseItems ==
    {<<"a", "=", "1">>, <<"a", "=">>, <<"a">>, <<"b", "=", "2">>, <<"a", "=",
        "1", "=", "2">>, <<"a", "=", "1", "=">>, <<"=", "x">>, <<>>}

ParseBodies ==
    {Join(items, <<"&">>) :
        items \in UNION {[1..n -> ParseItems] : n \in 0..MaxParseItems}}

ParseInit ==
    /\ parsed = [pc |-> "new"]
    /\ call = Idle
    /\ pkce = Idle
    /\ xc = Idle
    /\ oa = Idle
    /\ oa2 = Idle
    /\ call2 = Idle
    /\ caller = Idle
    /\ norm = Idle

\* parse_oauth_body(body)
ParseBody ==
    /\ parsed.pc = "new"
    /\ \E body \in ParseBodies :
           parsed' = [pc |-> "done", body |-> body, map |-> parse_oauth_body(body)]
    /\ UNCHANGED <<call, pkce, xc, oa, oa2, call2, caller, norm>>

ParseNext == ParseBody

SpecParse == ParseInit /\ [][ParseNext]_vars
----------------------------------------------------------------------------
(* The specification of normalize: it is called on a list of pairs, and then *)
(* once more on the same list.                                               *)

\* the pairs supplied to one call
MaxParams == 3

\* pairs whose keys change places when they are encoded (= is encoded as %3D,
\* which is before 1), and pairs that share a key
NormPairs ==
    {<<<<"a", "1">>, <<"x">>>>, <<<<"a", "=">>, <<"x">>>>, <<<<"a",
        "1">>, <<"x", " ", "y">>>>, <<<<"b">>, <<>>>>}

NormInputs == UNION {[1..n -> NormPairs] : n \in 0..MaxParams}

NormInit ==
    /\ norm = [pc |-> "new"]
    /\ call = Idle
    /\ pkce = Idle
    /\ xc = Idle
    /\ oa = Idle
    /\ oa2 = Idle
    /\ call2 = Idle
    /\ caller = Idle
    /\ parsed = Idle

\* normalize(params)
NormNormalize ==
    /\ norm.pc = "new"
    /\ \E params \in NormInputs :
           norm' = [pc |-> "done", params |-> params, output |-> normalize(params),
                    again |-> <<>>]
    /\ UNCHANGED <<call, pkce, xc, oa, oa2, call2, caller, parsed>>

\* normalize(params), called again on the same pairs
NormAgain ==
    /\ norm.pc = "done"
    /\ norm' = [norm EXCEPT !.pc = "again", !.again = normalize(norm.params)]
    /\ UNCHANGED <<call, pkce, xc, oa, oa2, call2, caller, parsed>>

NormNext == NormNormalize \/ NormAgain

SpecNormalize == NormInit /\ [][NormNext]_vars
----------------------------------------------------------------------------
(* Properties of execute_retry, checked under SpecRetry. *)

\* the call is over: it returned, or it panicked
Ended == call.pc \in {"done", "panic"}

\* a status that is neither 2xx nor 4xx
is_transient(status) == ~is_success(status) /\ ~is_client_error(status)

\* the sleep taken after attempt j-1 (0-indexed) lies in [2^(j-1)*base, 2^(j-1)*base + base)
SleepsInRange ==
    \A j \in 1..Len(call.sleeps) :
        /\ (2 ^ (j - 1)) * call.retry_millis <= call.sleeps[j]
        /\ call.sleeps[j] < (2 ^ (j - 1)) * call.retry_millis + call.retry_millis

\* C1: once attempt i has received a 4xx status the call only reads the body and
\* returns ClientError(body, status, headers) of that response: attempt i was the
\* last request built and sent (i + 1 of each) and no sleep beyond the i earlier
\* ones was started.
C1_ClientErrorReturnsAtOnce ==
    (call.last = "response" /\ is_client_error(call.res.status)) =>
        /\ call.pc \in {"client_text", "done"}
        /\ call.i < call.try_count
        /\ call.builds = call.i + 1
        /\ call.sends = call.i + 1
        /\ Len(call.sleeps) = call.i
        /\ call.pc = "client_text" => call.result = NoResult
        /\ call.pc = "done" =>
               call.result = ClientError(text_unwrap_or_default(call.res.body),
                                         call.res.status, call.res.headers)

\* C1 witness: a 404 on the second attempt, with an attempt left, ended the call
C1_Witness ==
    /\ call.pc = "done" /\ call.result.kind = "ClientError"
    /\ call.res.status = 404 /\ call.i = 1 /\ call.try_count = 3
    /\ call.builds = 2 /\ Len(call.sleeps) = 1

\* C2 (as claimed): whenever every attempt of a call with try_count = n >= 1 got a
\* transient status and the call is over, it returned RetryOver after exactly n
\* attempts and n - 1 sleeps, carrying the body, status and headers of the last
\* response.
C2_AllTransientYieldsRetryOver ==
    (/\ Ended /\ call.try_count >= 1
     /\ call.sends >= 1 /\ call.transients = call.sends) =>
        /\ call.builds = call.try_count
        /\ call.sends = call.try_count
        /\ Len(call.sleeps) = call.try_count - 1
        /\ call.result = RetryOver(text_unwrap_or_default(call.res.body),
                                   call.res.status, call.res.headers)

\* The same statement for retry_millis >= 1, where it does hold.
RetryOverWhenDelayPositive ==
    call.retry_millis >= 1 => C2_AllTransientYieldsRetryOver

\* C3: with retry_millis >= 1, when response k+1 is 2xx after k transient ones the
\* call has made exactly k+1 attempts and k sleeps, the sleep after attempt i lies
\* in [2^i * base, 2^i * base + base), and a decodable body is returned as Ok.
C3_SuccessAfterTransients ==
    (/\ call.retry_millis >= 1
     /\ call.last = "response" /\ is_success(call.res.status)) =>
        /\ call.pc \in {"json", "done"}
        /\ call.transients = call.i
        /\ call.builds = call.i + 1
        /\ call.sends = call.i + 1
        /\ Len(call.sleeps) = call.i
        /\ SleepsInRange
        /\ (call.pc = "done" /\ call.res.body.readable /\ DecodesAsT(call.res.body.text)) =>
               call.result = Ok(DecodedT(call.res.body.text),
                                call.res.status, call.res.headers)

\* C3 witness: 503, 503, 200 with try_count = 3 gave Ok after exactly 2 sleeps
C3_Witness ==
    /\ call.pc = "done" /\ call.result.kind = "Ok"
    /\ call.try_count = 3 /\ call.retry_millis = 2
    /\ call.transients = 2 /\ call.res.status = 200
    /\ Len(call.sleeps) = 2 /\ call.sleeps[2] = 5

\* C4 (as claimed): a call with try_count >= 1 and retry_millis >= 1 that is over
\* has returned one of Ok, ClientError or RetryOver.
C4_OnlyThreeOutcomes ==
    (Ended /\ call.try_count >= 1 /\ call.retry_millis >= 1) =>
        call.result.kind \in {"Ok", "ClientError", "RetryOver"}

\* C4 (amended): a call produces exactly one outcome, set when it ends: Ok for a
\* decoded 2xx body, ClientError for a 4xx, RetryOver for a transient status on the
\* final attempt (never anything else), OAuth2Error::Reqwest for a failed send or
\* an unreadable or undecodable 2xx body; it panics only with try_count = 0 or, on
\* a transient status with attempts left, with retry_millis = 0.
C4_ExactlyOneOutcome ==
    LET k == call.result.kind
        got == call.last = "response"
        s == call.res.status
    IN  /\ ~Ended => call.result = NoResult
        /\ Ended =>
            /\ k \in {"Ok", "ClientError", "RetryOver", "Reqwest", "panic"}
            /\ k = "panic" <=> call.pc = "panic"
            /\ k = "panic" =>
                   \/ call.try_count = 0 /\ call.sends = 0
                   \/ /\ call.retry_millis = 0 /\ got /\ is_transient(s)
                      /\ call.i + 1 < call.try_count
            /\ k = "Reqwest" =>
                   \/ call.last = "transport"
                   \/ got /\ is_success(s) /\ ~json(call.res.body).ok
            /\ k = "Ok" => got /\ is_success(s) /\ json(call.res.body).ok
            /\ k = "ClientError" => got /\ is_client_error(s)
            /\ k = "RetryOver" => got /\ is_transient(s) /\ call.i + 1 = call.try_count
            /\ (got /\ is_transient(s) /\ call.i + 1 >= call.try_count) =>
                   call.result = RetryOver(text_unwrap_or_default(call.res.body),
                                           s, call.res.headers)

\* C4 witness: a 2xx body that does not decode ended the call with Reqwest
C4_Witness ==
    /\ call.pc = "done" /\ call.result = Reqwest("decode")
    /\ call.res.status = 200 /\ call.res.body.text = "oops" /\ call.i = 1

\* C5: a failed send is a transient failure: after a failed send on an attempt
\* that is not the last, the call (made with retry_millis >= 1) has not ended:
\* it backs off and goes on to the next attempt.
C5_TransportFailureIsRetried ==
    (/\ call.retry_millis >= 1
     /\ call.last = "transport" /\ call.i + 1 < call.try_count) => ~Ended

\* what the code does on a failed send: the call ends at once, on any attempt,
\* with OAuth2Error::Reqwest; no sleep is started and no further request built
TransportFailureEndsCall ==
    call.last = "transport" =>
        /\ call.pc = "done"
        /\ call.result = Reqwest("send")
        /\ call.builds = call.i + 1
        /\ call.sends = call.i + 1
        /\ Len(call.sleeps) = call.i

----------------------------------------------------------------------------
(* Properties of PkceS256::new, checked under SpecPkce. *)

\* the 6-bit value of a character of the URL-safe alphabet
Base64UrlValue(c) ==
    CASE Ord(c) >= 65 /\ Ord(c) <= 90  -> Ord(c) - 65
      [] Ord(c) >= 97 /\ Ord(c) <= 122 -> Ord(c) - 71
      [] Ord(c) >= 48 /\ Ord(c) <= 57  -> Ord(c) + 4
      [] c = "-"                       -> 62
      [] c = "_"                       -> 63

\* a character of the URL-safe alphabet: A-Z, a-z, 0-9, - and _
IsUrlSafeChar(c) ==
    \/ Ord(c) >= 65 /\ Ord(c) <= 90
    \/ Ord(c) >= 97 /\ Ord(c) <= 122
    \/ Ord(c) >= 48 /\ Ord(c) <= 57
    \/ c \in {"-", "_"}

\* the bytes an unpadded URL-safe base64 text stands for (RFC 4648, a decoder
\* written apart from the encoder): byte k is bits 8k-7..8k of the 6-bit values
Base64UrlDecode(s) ==
    LET v(j) == Base64UrlValue(s[j])
        bit(n) == (v((n - 1) \div 6 + 1) \div (2 ^ (5 - ((n - 1) % 6)))) % 2
        byte(k) == bit(8 * k - 7) * 128 + bit(8 * k - 6) * 64 + bit(8 * k - 5) * 32
                   + bit(8 * k - 4) * 16 + bit(8 * k - 3) * 8 + bit(8 * k - 2) * 4
                   + bit(8 * k - 1) * 2 + bit(8 * k)
    IN  [k \in 1..((6 * Len(s)) \div 8) |-> byte(k)]

\* the bits of an unpadded text left over after its last whole byte are zero
Base64UrlCanonical(s) ==
    Len(s) = 0 \/ Base64UrlValue(s[Len(s)]) % (2 ^ ((6 * Len(s)) % 8)) = 0

\* s is the unpadded URL-safe base64 encoding of bytes
IsBase64UrlNoPadOf(s, bytes) ==
    /\ \A k \in 1..Len(s) : IsUrlSafeChar(s[k])
    /\ Len(s) = (4 * Len(bytes) + 2) \div 3
    /\ Base64UrlDecode(s) = bytes
    /\ Base64UrlCanonical(s)

\* C8: every pair made by PkceS256::new has a code_verifier that is the unpadded
\* URL-safe base64 encoding of the 32 random bytes drawn, hence 43 characters of
\* the URL-safe alphabet, within 43..128, and a code_challenge that is the
\* unpadded URL-safe base64 encoding of the SHA-256 hash of the verifier's
\* ASCII bytes.
C8_PkcePairIsS256 ==
    pkce.pc = "made" =>
        LET code_verifier == pkce.value.code_verifier
            code_challenge == pkce.value.code_challenge
        IN  /\ Len(pkce.random_bytes) = 32
            /\ IsBase64UrlNoPadOf(code_verifier, pkce.random_bytes)
            /\ Len(code_verifier) = 43
            /\ 43 <= Len(code_verifier) /\ Len(code_verifier) <= 128
            /\ IsBase64UrlNoPadOf(code_challenge, Sha256(as_bytes(code_verifier)))

\* the pair of the worked example of RFC 7636 has been made
C8_Witness ==
    /\ pkce.pc = "made"
    /\ pkce.random_bytes = Rfc7636Bytes
    /\ pkce.value.code_verifier = <<"d", "B", "j", "f", "t", "J", "e", "Z",
        "4", "C", "V", "P", "-", "m", "B", "9", "2", "K", "2", "7", "u", "h",
        "b", "U", "J", "U", "1", "p", "1", "r", "_", "w", "W", "1", "g", "F",
        "W", "F", "O", "E", "j", "X", "k">>
    /\ pkce.value.code_challenge = <<"E", "9", "M", "e", "l", "h", "o", "a",
        "2", "O", "w", "v", "F", "r", "E", "M", "T", "J", "g", "u", "C", "H",
        "a", "o", "e", "K", "1", "t", "8", "U", "R", "W", "b", "u", "G", "J",
        "S", "s", "t", "w", "-", "c", "M">>
----------------------------------------------------------------------------
(* Properties of XClient::authorize_url, checked under SpecX. *)

\* the value of a hex digit
HexValue(c) == (CHOOSE k \in 1..16 : HexDigits[k] = c) - 1

\* the text a percent-encoded text stands for: every %XY is the character of code
\* XY, every other character is itself (a reader written apart from the writer)
PercentDecode(s) ==
    LET esc == {k \in 1..Len(s) : s[k] = "%"}
        kept == {k \in 1..Len(s) : (k - 1) \notin esc /\ (k - 2) \notin esc}
        before == [k \in 1..Len(s) |-> Cardinality({e \in esc : e < k})]
        pos(j) == CHOOSE k \in kept : k - 2 * before[k] = j
    IN  [j \in 1..Cardinality(kept) |->
            IF s[pos(j)] = "%"
                THEN Chr(16 * HexValue(s[pos(j) + 1]) + HexValue(s[pos(j) + 2]))
                ELSE s[pos(j)]]

\* the position of the first ? of a URL (one past its end if it has none)
QueryStart(url) == CHOOSE q \in Cuts(url, "?") : \A r \in Cuts(url, "?") : q <= r

\* the key=value items of the query of a URL, as read by its receiver: the text
\* after the first ?, cut at every &
QueryItems(url) == Split(SubSeq(url, QueryStart(url) + 1, Len(url)), "&")

\* the URL returned carries exactly the keys given, in order, each once, each
\* with the value given once percent-decoded
QueryCarries(url, keys, values) ==
    LET items == QueryItems(url) IN
    /\ Len(items) = Len(keys)
    /\ \A k \in 1..Len(items) :
           LET pieces == Split(items[k], "=") IN
           /\ Len(pieces) = 2
           /\ PercentDecode(pieces[1]) = keys[k]
           /\ PercentDecode(pieces[2]) = values[k]

\* the query keys of the authorize URL of OAuth2, in order
AuthorizeKeys ==
    <<<<"r", "e", "s", "p", "o", "n", "s", "e", "_", "t", "y", "p",
        "e">>, <<"c", "l", "i", "e", "n", "t", "_", "i", "d">>, <<"r", "e",
        "d", "i", "r", "e", "c", "t", "_", "u", "r", "i">>, <<"s", "c", "o",
        "p", "e">>,
      <<"s", "t", "a", "t", "e">>, <<"c", "o", "d", "e", "_", "c", "h", "a",
          "l", "l", "e", "n", "g", "e">>, <<"c", "o", "d", "e", "_", "c",
          "h", "a", "l", "l", "e", "n", "g", "e", "_", "m", "e", "t", "h",
          "o", "d">>>>

\* the code_challenge of a verifier: base64url, unpadded, of its SHA-256 hash
IsChallengeOf(code_challenge, code_verifier) ==
    IsBase64UrlNoPadOf(code_challenge, Sha256(as_bytes(code_verifier)))

\* the value of the item of a URL's query with the key given (the last, if many)
QueryValue(url, key) ==
    LET items == QueryItems(url)
        k == CHOOSE i \in 1..Len(items) :
                 /\ Split(items[i], "=")[1] = key
                 /\ \A j \in (i + 1)..Len(items) : Split(items[j], "=")[1] # key
    IN  Split(items[k], "=")[2]

\* C9, as stated: the URL returned for the state "state1" contains the text
\* state=state1&code_challenge_method=S256.
C9_UrlHasStateThenMethod ==
    (xc.pc = "returned" /\ xc.state = <<"s", "t", "a", "t", "e", "1">>) =>
        Contains(xc.url, <<"s", "t", "a", "t", "e", "=", "s", "t", "a", "t",
            "e", "1", "&", "c", "o", "d", "e", "_", "c", "h", "a", "l", "l",
            "e", "n", "g", "e", "_", "m", "e", "t", "h", "o", "d", "=", "S",
            "2", "5", "6">>)

\* C9, amended: authorize_url(state) returns (url, verifier) where url is the X
\* authorize endpoint, ?, and the seven items response_type=code, client_id,
\* redirect_uri, scope (the scope names joined by spaces), state, code_challenge
\* and code_challenge_method=S256, in this order, their values percent-encoded;
\* code_challenge is the unpadded URL-safe base64 of the SHA-256 hash of the
\* verifier returned; for the state "state1" the URL contains the text
\* state=state1&code_challenge=<challenge>&code_challenge_method=S256.
C9_AuthorizeUrlCarriesStateChallengeMethod ==
    xc.pc = "returned" =>
        LET code_challenge == QueryValue(xc.url, <<"c", "o", "d", "e", "_",
            "c", "h", "a", "l", "l", "e", "n", "g", "e">>)
            scope_names == [k \in 1..Len(xc.scopes) |-> XScope_to_string(xc.scopes[k])]
        IN  /\ SubSeq(xc.url, 1, QueryStart(xc.url) - 1) = X_AUTHORIZE_URL
            /\ QueryCarries(xc.url, AuthorizeKeys,
                            <<<<"c", "o", "d",
                                "e">>, xc.client_id, xc.redirect_uri,
                              Join(scope_names, <<" ">>), xc.state,
                              code_challenge, <<"S", "2", "5", "6">>>>)
            /\ IsChallengeOf(code_challenge, xc.code_verifier)
            /\ IsBase64UrlNoPadOf(xc.code_verifier, xc.random_bytes)
            /\ xc.state = <<"s", "t", "a", "t", "e", "1">> =>
                   Contains(xc.url, <<"s", "t", "a", "t", "e", "=", "s", "t",
                       "a", "t", "e", "1", "&", "c", "o", "d", "e", "_", "c",
                       "h", "a", "l", "l", "e", "n", "g", "e",
                       "=">> \o code_challenge
                                        \o <<"&", "c", "o", "d", "e", "_",
                                            "c", "h", "a", "l", "l", "e",
                                            "n", "g", "e", "_", "m", "e",
                                            "t", "h", "o", "d", "=", "S",
                                            "2", "5", "6">>)

\* authorize_url("state1") has returned the URL of the client cid with three
\* scopes, for the random bytes of the worked example of RFC 7636
C9_Witness ==
    /\ xc.pc = "returned"
    /\ xc.state = <<"s", "t", "a", "t", "e", "1">>
    /\ xc.code_verifier = <<"d", "B", "j", "f", "t", "J", "e", "Z", "4", "C",
        "V", "P", "-", "m", "B", "9", "2", "K", "2", "7", "u", "h", "b", "U",
        "J", "U", "1", "p", "1", "r", "_", "w", "W", "1", "g", "F", "W", "F",
        "O", "E", "j", "X", "k">>
    /\ xc.url = <<"h", "t", "t", "p", "s", ":", "/", "/", "x", ".", "c", "o",
        "m", "/", "i", "/", "o", "a", "u", "t", "h", "2", "/", "a", "u", "t",
        "h", "o", "r", "i", "z", "e", "?", "r", "e", "s", "p", "o", "n", "s",
        "e", "_", "t", "y", "p", "e", "=", "c", "o", "d", "e">>
                \o <<"&", "c", "l", "i", "e", "n", "t", "_", "i", "d", "=",
                    "c", "i", "d", "&", "r", "e", "d", "i", "r", "e", "c",
                    "t", "_", "u", "r", "i", "=", "h", "t", "t", "p", "s",
                    ":", "/", "/", "e", "x", "a", "m", "p", "l", "e", ".",
                    "c", "o", "m", "/", "c", "b">>
                \o <<"&", "s", "c", "o", "p", "e", "=", "t", "w", "e", "e",
                    "t", ".", "r", "e", "a", "d", "%", "2", "0", "u", "s",
                    "e", "r", "s", ".", "r", "e", "a", "d", "%", "2", "0",
                    "o", "f", "f", "l", "i", "n", "e", ".", "a", "c", "c",
                    "e", "s", "s", "&", "s", "t", "a", "t", "e", "=", "s",
                    "t", "a", "t", "e", "1">>
                \o <<"&", "c", "o", "d", "e", "_", "c", "h", "a", "l", "l",
                    "e", "n", "g", "e", "=", "E", "9", "M", "e", "l", "h",
                    "o", "a", "2", "O", "w", "v", "F", "r", "E", "M", "T",
                    "J", "g", "u", "C", "H", "a", "o", "e", "K", "1", "t",
                    "8", "U", "R", "W", "b", "u", "G", "J", "S", "s", "t",
                    "w", "-", "c", "M">>
                \o <<"&", "c", "o", "d", "e", "_", "c", "h", "a", "l", "l",
                    "e", "n", "g", "e", "_", "m", "e", "t", "h", "o", "d",
                    "=", "S", "2", "5", "6">>
----------------------------------------------------------------------------
(* Properties of OAuth1aClient::request_token, checked under SpecOAuth1. *)

\* whether s begins with text
StartsWith(s, text) == Len(text) <= Len(s) /\ SubSeq(s, 1, Len(text)) = text

\* the position of the first = of a text (one past its end if it has none)
FirstEq(s) == CHOOSE p \in Cuts(s, "=") : \A q \in Cuts(s, "=") : p <= q

\* what an item has before its first =, what it has after it, and what it has
\* between its first = and its second
KeyPart(item) == SubSeq(item, 1, FirstEq(item) - 1)

AfterKey(item) == SubSeq(item, FirstEq(item) + 1, Len(item))

ValuePart(item) == SubSeq(AfterKey(item), 1, FirstEq(AfterKey(item)) - 1)

\* the keys request_token reads
RequestTokenKeys ==
    {<<"o", "a", "u", "t", "h", "_", "t", "o", "k", "e", "n">>, <<"o", "a",
        "u", "t", "h", "_", "t", "o", "k", "e", "n", "_", "s", "e", "c", "r",
        "e", "t">>, <<"o", "a", "u", "t", "h", "_", "c", "a", "l", "l", "b",
        "a", "c", "k", "_", "c", "o", "n", "f", "i", "r", "m", "e", "d">>}

\* the call is over: it returned a value, or it panicked
OaEnded == oa.pc \in {"returned", "panic"}

\* the call is over and its last attempt got a success status
OaEndedOnSuccess == OaEnded /\ oa.exec.result.kind = "Ok"

\* the body of that success
OaBody == oa.exec.result.body

\* the indices of the items with the key given
ItemsOf(items, key) == {k \in 1..Len(items) : KeyPart(items[k]) = key}

\* the last of the items with the key given
LastItemOf(items, key) ==
    items[CHOOSE k \in ItemsOf(items, key) : \A j \in ItemsOf(items, key) : j <= k]

\* the OAuth2 half of C6, under SpecRetry: a success status whose body does not
\* decode ends the call with an error value, and no attempt follows
UndecodableSuccessIsAnErrorValue ==
    (/\ call.pc \in {"done", "panic"}
     /\ call.last = "response"
     /\ is_success(call.res.status)
     /\ ~(call.res.body.readable /\ DecodesAsT(call.res.body.text)))
        => /\ call.pc = "done"
           /\ call.result.kind = "Reqwest"
           /\ call.sends = call.i + 1
\* C6, for OAuth1: when the last attempt got a success status and the body
\* lacks one of the keys request_token reads, the call returns a
\* malformed-response error as a value (it does not abort) and made no attempt
\* after that response.
C6_MissingFieldIsAnErrorValue ==
    (/\ OaEndedOnSuccess
     /\ \E key \in RequestTokenKeys : ItemsOf(Split(OaBody, "&"), key) = {})
        => /\ oa.pc = "returned"
           /\ oa.result.kind = "Err"
           /\ oa.result.error = "MalformedResponse"
           /\ oa.exec.sends = oa.exec.i + 1

\* C7: what a call writes to standard output is the same for two runs that
\* differ only in the consumer secret.
C7_OutputSameForAnySecret ==
    /\ oa.self.consumer_secret # oa2.self.consumer_secret
    /\ [oa.self EXCEPT !.consumer_secret = <<>>] = [oa2.self EXCEPT !.consumer_secret = <<>>]
    /\ oa.stdout = oa2.stdout

\* C10, as stated: when the success body contains oauth_token=T,
\* oauth_token_secret=S and oauth_callback_confirmed=C, request_token returns
\* exactly T, S and C and the authorize URL AUTHORIZE_URL followed by T.
C10_ReturnsTheValuesInTheBody ==
    OaEndedOnSuccess =>
        LET items == Split(OaBody, "&") IN
            \A t, s, c \in {items[k] : k \in 1..Len(items)} :
                (/\ StartsWith(t, <<"o", "a", "u", "t", "h", "_", "t", "o",
                    "k", "e", "n", "=">>)
                 /\ StartsWith(s, <<"o", "a", "u", "t", "h", "_", "t", "o",
                     "k", "e", "n", "_", "s", "e", "c", "r", "e", "t",
                     "=">>)
                 /\ StartsWith(c, <<"o", "a", "u", "t", "h", "_", "c", "a",
                     "l", "l", "b", "a", "c", "k", "_", "c", "o", "n", "f",
                     "i", "r", "m", "e", "d", "=">>))
                    => /\ oa.pc = "returned" /\ oa.result.kind = "Ok"
                       /\ oa.result.value.response.oauth_token = AfterKey(t)
                       /\ oa.result.value.response.oauth_token_secret = AfterKey(s)
                       /\ oa.result.value.response.oauth_callback_confirmed = AfterKey(c)
                       /\ oa.result.value.url = AUTHORIZE_URL \o AfterKey(t)

\* C10, amended: when the success body has an item for each of oauth_token,
\* oauth_token_secret and oauth_callback_confirmed, request_token returns, for
\* each key, the value of the last item with that key, cut before its second =
\* (so exactly T, S and C when each key has one item and the values hold no =),
\* and the authorize URL AUTHORIZE_URL followed by the oauth_token returned.
C10_ReturnsTheLastValuesCutAtEq ==
    LET items == Split(OaBody, "&") IN
        (/\ OaEndedOnSuccess
         /\ \A key \in RequestTokenKeys : ItemsOf(items, key) # {})
            => LET Returned(key) == ValuePart(LastItemOf(items, key))
                   Sole(key) == /\ Cardinality(ItemsOf(items, key)) = 1
                                /\ Cuts(AfterKey(LastItemOf(items, key)), "=")
                                       = {Len(AfterKey(LastItemOf(items, key))) + 1}
                   response == oa.result.value.response
               IN  /\ oa.pc = "returned" /\ oa.result.kind = "Ok"
                   /\ response.oauth_token = Returned(<<"o", "a", "u", "t",
                       "h", "_", "t", "o", "k", "e", "n">>)
                   /\ response.oauth_token_secret = Returned(<<"o", "a", "u",
                       "t", "h", "_", "t", "o", "k", "e", "n", "_", "s", "e",
                       "c", "r", "e", "t">>)
                   /\ response.oauth_callback_confirmed
                          = Returned(<<"o", "a", "u", "t", "h", "_", "c",
                              "a", "l", "l", "b", "a", "c", "k", "_", "c",
                              "o", "n", "f", "i", "r", "m", "e", "d">>)
                   /\ oa.result.value.url = AUTHORIZE_URL \o response.oauth_token
                   /\ EndsWith(oa.result.value.url,
                               <<"o", "a", "u", "t", "h", "_", "t", "o", "k",
                                   "e", "n", "=">> \o response.oauth_token)
                   /\ Sole(<<"o", "a", "u", "t", "h", "_", "t", "o", "k",
                       "e", "n">>) =>
                          response.oauth_token
                              = AfterKey(LastItemOf(items, <<"o", "a", "u",
                                  "t", "h", "_", "t", "o", "k", "e", "n">>))
                   /\ Sole(<<"o", "a", "u", "t", "h", "_", "t", "o", "k",
                       "e", "n", "_", "s", "e", "c", "r", "e", "t">>) =>
                          response.oauth_token_secret
                              = AfterKey(LastItemOf(items, <<"o", "a", "u",
                                  "t", "h", "_", "t", "o", "k", "e", "n",
                                  "_", "s", "e", "c", "r", "e", "t">>))
                   /\ Sole(<<"o", "a", "u", "t", "h", "_", "c", "a", "l",
                       "l", "b", "a", "c", "k", "_", "c", "o", "n", "f", "i",
                       "r", "m", "e", "d">>) =>
                          response.oauth_callback_confirmed
                              = AfterKey(LastItemOf(items, <<"o", "a", "u",
                                  "t", "h", "_", "c", "a", "l", "l", "b",
                                  "a", "c", "k", "_", "c", "o", "n", "f",
                                  "i", "r", "m", "e", "d">>))

\* request_token has returned for the body of the example
C10_Witness ==
    /\ oa.pc = "returned"
    /\ oa.exec.result.kind = "Ok"
    /\ oa.exec.result.body
           = <<"o", "a", "u", "t", "h", "_", "t", "o", "k", "e", "n", "=",
               "a", "b", "c", "&", "o", "a", "u", "t", "h", "_", "t", "o",
               "k", "e", "n", "_", "s", "e", "c", "r", "e", "t", "=", "x",
               "y", "z", "&", "o", "a", "u", "t", "h", "_", "c", "a", "l",
               "l", "b", "a", "c", "k", "_", "c", "o", "n", "f", "i", "r",
               "m", "e", "d", "=", "t", "r", "u", "e">>
    /\ oa.result.kind = "Ok"
    /\ oa.result.value.response.oauth_token = <<"a", "b", "c">>
    /\ oa.result.value.response.oauth_token_secret = <<"x", "y", "z">>
    /\ oa.result.value.response.oauth_callback_confirmed = <<"t", "r", "u",
        "e">>
    /\ oa.result.value.url = <<"h", "t", "t", "p", "s", ":", "/", "/", "a",
        "p", "i", ".", "x", ".", "c", "o", "m", "/", "o", "a", "u", "t", "h",
        "/", "a", "u", "t", "h", "o", "r", "i", "z", "e", "?", "o", "a", "u",
        "t", "h", "_", "t", "o", "k", "e", "n", "=", "a", "b", "c">>

----------------------------------------------------------------------------
(* Properties of the calls of an OAuth1aClient, checked under SpecFlow. *)

\* the token secret of the call in progress: none for request_token
TokenSecretOrEmpty(run) ==
    IF run.op = "access_token" THEN run.args.oauth_token_secret ELSE <<>>

\* C11: in every signed request the signing key is the percent-encoded consumer
\* secret, "&", and the percent-encoded token secret, which is empty for
\* request_token and the caller's oauth_token_secret for access_token
C11_SigningKeyIsEncodedParts ==
    oa.pc # "made" =>
        oa.sign_key = percent_encode(oa.self.consumer_secret) \o <<"&">>
                          \o percent_encode(TokenSecretOrEmpty(oa))

----------------------------------------------------------------------------
(* Properties of two calls in flight, checked under SpecPair. *)

\* the call c run with no other call beside it, on the outcomes given: every
\* step it can take is taken, up to the send that has no outcome left
RECURSIVE RunAlone(_, _)
RunAlone(c, outcomes) ==
    CASE c.pc = "loop" -> RunAlone(ForNext(c), outcomes)
      [] c.pc = "send" ->
             IF outcomes = <<>> THEN c
             ELSE RunAlone(SendDone(c, Head(outcomes).outcome, Head(outcomes).rnd),
                           Tail(outcomes))
      [] c.pc = "json" -> RunAlone(JsonDone(c), outcomes)
      [] c.pc = "client_text" -> RunAlone(ClientTextDone(c), outcomes)
      [] c.pc = "over_text" -> RunAlone(OverTextDone(c), outcomes)
      [] c.pc = "sleep" -> RunAlone(SleepDone(c), outcomes)
      [] OTHER -> c

\* the call c, entered as c0, is where it would be had it run alone on the
\* outcomes it has received
AsIfAlone(c, c0) ==
    [RunAlone(c, <<>>) EXCEPT !.seen = <<>>] = RunAlone(c0, c.seen)

\* C12: two calls interleaved at their suspension points (send, body read,
\* backoff sleep) share no mutable state: the attempts, sleeps and outcome of
\* each are the ones it would produce alone on its own parameters and responses
C12_EachCallAsIfAlone ==
    /\ AsIfAlone(call, FirstCall(xc))
    /\ AsIfAlone(call2, SecondCall(xc))

\* both calls are in flight at once, the first asleep before its second attempt
\* while the second, after a sleep of its own, reads the body of a success
C12_Witness ==
    /\ call.pc = "sleep" /\ call.sends = 1
    /\ call2.pc = "json" /\ call2.sends = 2 /\ Len(call2.sleeps) = 1
    /\ call.seen # <<>> /\ call.seen[1] # call2.seen[1]

----------------------------------------------------------------------------
(* Properties of a cancelled call, checked under SpecCancel. *)

\* C13: when the caller cancels a call while an attempt is in flight or a sleep
\* is pending, the call is abandoned: the cancellation builds and sends nothing
\* and produces no outcome, and from then on no request is built or sent, no
\* sleep goes on, no outcome is produced and the client is not changed
C13_CancelledCallIsAbandoned ==
    [][/\ caller'.cancelled /\ ~caller.cancelled =>
              /\ call'.result = NoResult
              /\ call'.builds = call.builds /\ call'.sends = call.sends
              /\ call'.sleeps = call.sleeps /\ call'.i = call.i
              /\ xc' = xc
       /\ caller.cancelled => call' = call /\ xc' = xc]_vars

\* a call cancelled during its first sleep, after one attempt
C13_Witness ==
    /\ caller.cancelled /\ call.pc = "cancelled"
    /\ call.sends = 1 /\ Len(call.sleeps) = 1 /\ call.i = 0

----------------------------------------------------------------------------
(* Properties of the constructors, checked under SpecNew. *)

\* the fields of the two clients
OAuth1aClientFields ==
    {"consumer_key", "consumer_secret", "callback_url", "try_count",
     "retry_duration", "timeout", "prefix_url"}

XClientFields ==
    {"pc", "client_id", "client_secret", "redirect_uri", "scopes", "try_count",
     "retry_millis", "timeout"}

\* the credentials of the constructed clients
HasEmptyCredential(run) ==
    run.self.consumer_key = <<>> \/ run.self.consumer_secret = <<>>

HasEmptyClientCredential(client) ==
    client.client_id = <<>> \/ client.client_secret = <<>>

\* C14: constructing a flow with missing or invalid credentials (an empty
\* consumer key or secret, an empty client id or secret) fails at construction
\* with a ConfigurationError: no client with such credentials comes to exist
C14_EmptyCredentialsFailAtConstruction ==
    /\ oa.pc # "unmade" => ~HasEmptyCredential(oa)
    /\ xc.pc # "unmade" => ~HasEmptyClientCredential(xc)

\* C14 as the code has it: construction never fails and sends nothing. Every
\* constructor returns a client that holds the credentials as given, empty
\* ones included; until a call is made on it there is nothing but the client:
\* no request, no output, no error value
C14_ConstructionNeverFails ==
    /\ oa.pc # "unmade" =>
           /\ DOMAIN oa.self = OAuth1aClientFields
           /\ oa.self.consumer_key \in NewConsumerKeys
           /\ oa.self.consumer_secret \in NewConsumerSecrets
    /\ oa.pc = "made" => DOMAIN oa = {"pc", "self", "stdout"} /\ oa.stdout = <<>>
    /\ xc.pc # "unmade" =>
           /\ xc.pc = "made"
           /\ DOMAIN xc = XClientFields
           /\ xc.client_id \in NewClientIds
           /\ xc.client_secret \in NewClientSecrets

\* both clients are constructed from empty credentials, one of them with
\* try_count = 0, and no call has been made on either
C14_Witness ==
    /\ oa.pc = "made" /\ oa.self.consumer_key = <<>> /\ oa.self.consumer_secret = <<>>
    /\ oa.self.try_count = 0
    /\ xc.pc = "made" /\ xc.client_id = <<>> /\ xc.client_secret = <<>>

\* an access token has been issued by the call that just returned
AccessTokenIssued ==
    oa.pc = "returned" /\ oa.op = "access_token" /\ oa.result.kind = "Ok"

\* the token secrets of the request tokens issued to the caller so far
IssuedTokenSecrets ==
    {caller.request_tokens[k].oauth_token_secret : k \in 1..Len(caller.request_tokens)}

\* C15: the flow advances only along Start -> RequestTokenIssued ->
\* UserAuthorized -> AccessTokenIssued: an access token is issued only after a
\* request token was issued, and the token secret in the signing key of
\* access_token is the oauth_token_secret that earlier request_token returned
C15_AccessTokenOnlyAfterRequestToken ==
    AccessTokenIssued =>
        \E token_secret \in IssuedTokenSecrets :
            oa.sign_key = oa.self.consumer_secret \o <<"&">> \o token_secret

\* C15 as the code has it: the client keeps no state of the flow. access_token
\* can be called at any point and signs with the oauth_token_secret its caller
\* passes; an access token is issued whenever execute_retry_body returns a
\* success whose body has the three fields
C15_AccessTokenSignsWithTheSecretPassed ==
    /\ oa.pc # "made" /\ oa.op = "access_token" =>
           oa.sign_key = oa.self.consumer_secret \o <<"&">>
                             \o oa.args.oauth_token_secret
    /\ AccessTokenIssued =>
           /\ oa.exec.result.kind = "Ok"
           /\ oa.args.oauth_token_secret \in CallerTokenSecrets(caller)

\* an access token is issued to a caller that holds no request token
C15_Witness ==
    /\ AccessTokenIssued /\ caller.request_tokens = <<>>
    /\ oa.args.oauth_token_secret \in FlowTokenSecrets

----------------------------------------------------------------------------
(* Properties of the four calls of the flows, checked under SpecFrame. *)

\* the XClient inside the state of its calls: its seven fields
XClientOf(x) == [f \in XClientFields \ {"pc"} |-> x[f]]

\* C16: request_token, access_token, authorize_url and token leave the client
\* they are called on unchanged, on success and on every error path: its
\* fields stay the ones it was constructed with, and no issued token, token
\* secret or PKCE verifier is stored in it
C16_CallsLeaveTheClientUnchanged ==
    [][/\ oa.pc # "idle" =>
              /\ oa'.self = oa.self
              /\ DOMAIN oa'.self = OAuth1aClientFields
       /\ xc.pc # "idle" => XClientOf(xc') = XClientOf(xc)]_vars

\* an OAuth1aClient after a call that returned a request token and a call
\* that returned an error
C16_Witness ==
    /\ oa.pc = "returned" /\ oa.result.kind = "Err"
    /\ caller.calls = 2 /\ Len(caller.request_tokens) = 1

----------------------------------------------------------------------------
(* Properties of parse_oauth_body, checked under SpecParse. *)

\* the key under which the whole body is kept
TwapiRequestBody == <<"t", "w", "a", "p", "i", "_", "r", "e", "q", "u", "e",
    "s", "t", "_", "b", "o", "d", "y">>

\* an item has no =, or nothing between its first = and its end or second =
HasNoValue(item) == FirstEq(item) = Len(item) + 1 \/ ValuePart(item) = <<>>

\* C17: parse_oauth_body accepts every body. Each key of the body is mapped,
\* to what its last item has between the first = and the next, so that a key
\* whose last item has no = or an empty value is mapped to the empty text and
\* a later item of a key overwrites the earlier ones; nothing else is mapped
\* but the body itself, and no body makes the function fail
C17_ParseIsLenient ==
    parsed.pc = "done" =>
        LET items == Split(parsed.body, "&")
            keys == {KeyPart(items[k]) : k \in 1..Len(items)}
        IN  /\ DOMAIN parsed.map = keys \cup {TwapiRequestBody}
            /\ \A key \in keys :
                   /\ parsed.map[key] = ValuePart(LastItemOf(items, key))
                   /\ HasNoValue(LastItemOf(items, key)) => parsed.map[key] = <<>>
            /\ TwapiRequestBody \notin keys =>
                   parsed.map[TwapiRequestBody] = parsed.body

\* the body a=1&b=2&a: the key a occurs twice, its last item has no =
C17_Witness ==
    /\ parsed.pc = "done"
    /\ parsed.body = <<"a", "=", "1", "&", "b", "=", "2", "&", "a">>
    /\ parsed.map[<<"a">>] = <<>>
    /\ parsed.map[<<"b">>] = <<"2">>

----------------------------------------------------------------------------
(* Properties of normalize, checked under SpecNormalize. *)

\* a list turned round
Reverse(s) == [k \in 1..Len(s) |-> s[Len(s) + 1 - k]]

\* the items of a normalized text, and the encoded key and value of an item
NormItems(text) == IF text = <<>> THEN <<>> ELSE Split(text, "&")

EncodedPair(item) == <<KeyPart(item), AfterKey(item)>>

\* C18: normalize(P) does not depend on the order in which the pairs are
\* supplied nor on pairs supplied again, its output is sorted by (encoded key,
\* encoded value), and a repeated call on the same pairs gives the same text.
\* The output is the encoded pairs of the set of P, each once, in ascending
\* order; the list turned round and the list supplied twice give the same text
C18_NormalizeIsCanonical ==
    norm.pc \in {"done", "again"} =>
        LET supplied == {norm.params[k] : k \in 1..Len(norm.params)}
            items == NormItems(norm.output)
        IN  /\ {items[k] : k \in 1..Len(items)}
                   = {percent_encode(p[1]) \o <<"=">> \o percent_encode(p[2]) :
                          p \in supplied}
            /\ Len(items) = Cardinality(supplied)
            /\ \A k \in 1..(Len(items) - 1) :
                   PairLess(EncodedPair(items[k]), EncodedPair(items[k + 1]))
            /\ normalize(Reverse(norm.params)) = norm.output
            /\ normalize(norm.params \o norm.params) = norm.output
            /\ norm.pc = "again" => norm.again = norm.output

\* a1=x, a==x and a1=x again: the pair supplied twice appears once, and a%3D
\* is before a1 though = is after 1
C18_Witness ==
    /\ norm.pc = "again"
    /\ norm.params = << <<<<"a", "1">>, <<"x">>>>, <<<<"a",
        "=">>, <<"x">>>>, <<<<"a", "1">>, <<"x">>>> >>
    /\ norm.output = <<"a", "%", "3", "D", "=", "x", "&", "a", "1", "=", "x">>

----------------------------------------------------------------------------
(* The classification of a response status, checked under SpecRetry. *)

\* what the step that receives a response does with its status: a 2xx goes on
\* to be decoded and returned, a 4xx to be returned as ClientError, and any
\* other status is retried (a sleep follows) while an attempt is left and
\* returned as RetryOver when none is
Classified ==
    (call.pc = "send" /\ call'.last = "response" /\ call'.sends = call.sends + 1) =>
        LET status == call'.res.status IN
            /\ is_success(status) => call'.pc = "json"
            /\ is_client_error(status) => call'.pc = "client_text"
            /\ is_transient(status) /\ call.i + 1 < call.try_count =>
                   /\ call'.pc = "sleep"
                   /\ Len(call'.sleeps) = Len(call.sleeps) + 1
            /\ is_transient(status) /\ call.i + 1 >= call.try_count =>
                   call'.pc = "over_text"
            /\ call'.result = NoResult

\* C19: every response status falls into exactly one class: 2xx is success, 4xx
\* is client error, and every other status (1xx, 3xx, 5xx) is transient and
\* retried while attempts remain; no status is both retried and returned
C19_EveryStatusHasOneClass == [][Classified]_vars

\* the same statement for retry_millis >= 1, where it does hold
ClassifiedWhenDelayPositive == [][call.retry_millis >= 1 => Classified]_vars

----------------------------------------------------------------------------
(* The requests of one call, checked under SpecFlow. *)

\* a request_token or access_token call is in progress or has ended
OaCalled == oa.pc \notin {"idle", "made"}

\* C20: within one request_token or access_token call the signed Authorization
\* header is computed once, before the retry loop: every attempt of the call,
\* each retry after a backoff sleep included, sends the identical header, the
\* one signed with the call's key
C20_EveryAttemptSendsTheSameHeader ==
    OaCalled =>
        /\ Len(oa.requests) = oa.exec.sends
        /\ Len(oa.requests) = Len(oa.exec.sleeps) + (IF oa.exec.pc = "sleep" THEN 0 ELSE 1)
        /\ \A k \in 1..Len(oa.requests) :
               /\ oa.requests[k].authorization = oa.requests[1].authorization
               /\ oa.requests[k].authorization = oa.signed
               /\ oa.requests[k].url = oa.url

\* an access_token call that sent a second attempt after a backoff sleep
C20_Witness ==
    /\ OaCalled /\ oa.op = "access_token"
    /\ Len(oa.requests) >= 2 /\ Len(oa.exec.sleeps) >= 1
    /\ oa.requests[2].authorization = oa.requests[1].authorization

----------------------------------------------------------------------------
(* Termination of execute_retry, checked under SpecRetryFair: every await of *)
(* the call completes (the request has a timeout, the sleep a duration), so  *)
(* a step of the call that can be taken is taken.                            *)

SpecRetryFair == SpecRetry /\ WF_vars(RetryNext)

\* the counters of a call: a request is sent as soon as it is built (a send is
\* counted when it completes), at most try_count requests are built, a sleep
\* follows only an attempt that is not the last, and the statement after the
\* loop is not reached
WithinBudget ==
    /\ call.builds = call.sends + (IF call.pc = "send" THEN 1 ELSE 0)
    /\ call.builds <= call.try_count
    /\ Len(call.sleeps) <= call.try_count - 1
    /\ Len(call.sleeps) <= call.builds
    /\ call.builds = call.try_count => call.pc # "sleep"
    /\ call.result # Panic("unreachable")

\* C21: for every try_count >= 1 and every sequence of attempt outcomes the call
\* eventually returns; at every point the builder invocations equal the sends
\* and are at most try_count, the sleeps are at most try_count - 1, no sleep
\* follows the final attempt, and unreachable!() is never reached
C21_ReturnsWithinItsBudget ==
    /\ [](call.try_count >= 1 => WithinBudget)
    /\ (call.try_count >= 1) ~> (call.pc = "done")

\* the same statement for retry_millis >= 1, where it does hold
ReturnsWithinItsBudgetWhenDelayPositive ==
    /\ [](call.try_count >= 1 => WithinBudget)
    /\ (call.try_count >= 1 /\ call.retry_millis >= 1) ~> (call.pc = "done")

----------------------------------------------------------------------------
(* A client made with try_count = 0, checked under SpecCancel: the client is *)
(* constructed by XClient::new_with_token_options and token is called on it. *)

\* C22: with try_count = 0, which new_with_token_options accepts, execute_retry
\* builds and sends no request and returns neither a success nor an error
\* value: control falls through the empty loop to unreachable!() and the call
\* aborts
C22_ZeroTryCountAborts ==
    (xc.pc = "made" /\ xc.try_count = 0) =>
        /\ call.try_count = 0
        /\ call.builds = 0 /\ call.sends = 0 /\ call.sleeps = <<>>
        /\ call.last = "none"
        /\ call.pc \in {"loop", "panic"}
        /\ call.pc = "loop" => call.result = NoResult
        /\ call.pc = "panic" => call.result = Panic("unreachable")

\* the token call of a client made with try_count = 0 has aborted
C22_Witness ==
    /\ xc.pc = "made" /\ xc.try_count = 0
    /\ call.pc = "panic" /\ call.result = Panic("unreachable")
    /\ call.builds = 0 /\ call.sends = 0

----------------------------------------------------------------------------
(* The backoff delay of execute_retry, checked under SpecRetry. *)

\* a transient response arrives on an attempt that is not the last
TransientWithAttemptsLeft ==
    /\ call.pc = "send" /\ call'.sends = call.sends + 1
    /\ call'.last = "response" /\ is_transient(call'.res.status)
    /\ call.i + 1 < call.try_count

\* what such a step does: with retry_millis = 0 the jitter computation aborts
\* the call, which neither sleeps nor returns a value; with retry_millis >= 1
\* the call sleeps for 2^i * retry_millis plus a jitter below retry_millis
BackoffDelay ==
    TransientWithAttemptsLeft =>
        IF call.retry_millis = 0
            THEN /\ call'.pc = "panic"
                 /\ call'.result = Panic("rem_by_zero")
                 /\ call'.sleeps = call.sleeps
                 /\ call'.transients = 1 /\ call'.builds = 1
            ELSE /\ call'.pc = "sleep"
                 /\ call'.result = NoResult
                 /\ \E jitter \in 0..(call.retry_millis - 1) :
                        call'.sleeps =
                            Append(call.sleeps,
                                   (2 ^ call.i) * call.retry_millis + jitter)

\* C23: the backoff delay 2^i * retry_millis + (random mod retry_millis) is
\* defined only for retry_millis >= 1: with retry_millis = 0 and try_count > 1
\* the first transient response on a non-final attempt makes execute_retry
\* abort on the modulo-by-zero jitter computation instead of retrying or
\* returning an error value
C23_ZeroRetryMillisAborts == [][BackoffDelay]_vars

\* a call with retry_millis = 0 and try_count = 2 has aborted on its first
\* transient response
C23_Witness ==
    /\ call.retry_millis = 0 /\ call.try_count = 2
    /\ call.pc = "panic" /\ call.result = Panic("rem_by_zero")
    /\ call.last = "response" /\ is_transient(call.res.status)
    /\ call.sends = 1 /\ call.sleeps = <<>>

----------------------------------------------------------------------------
(* Values that hold a =, checked under SpecParse. *)

\* an item has more than one =
HasSecondEq(item) == FirstEq(AfterKey(item)) <= Len(AfterKey(item))

\* C24: for an item with more than one = parse_oauth_body keeps only the text
\* between the first = and the second as the value, so the value returned is
\* shorter than the one sent (a value ending in = loses its padding); the
\* value of an item with at most one = is returned whole
C24_ValueIsCutAtTheSecondEq ==
    parsed.pc = "done" =>
        LET items == Split(parsed.body, "&")
            keys == {KeyPart(items[k]) : k \in 1..Len(items)}
        IN  \A key \in keys :
                LET item == LastItemOf(items, key)
                    sent == AfterKey(item)
                IN  IF HasSecondEq(item)
                        THEN /\ parsed.map[key] = SubSeq(sent, 1, FirstEq(sent) - 1)
                             /\ Len(parsed.map[key]) < Len(sent)
                        ELSE parsed.map[key] = sent

\* the body b=2&a=1=: the value 1= sent for the key a is returned as 1
C24_Witness ==
    /\ parsed.pc = "done"
    /\ parsed.body = <<"b", "=", "2", "&", "a", "=", "1", "=">>
    /\ parsed.map[<<"a">>] = <<"1">>
    /\ parsed.map[<<"b">>] = <<"2">>
====
